---------------------------- MODULE Spec2Model ----------------------------
(***************************************************************************)
(* Lead / order dashboard: rate limiter, permission checker, audit         *)
(* recorder, notification dispatcher and the lead -> order request         *)
(* handlers, modelled as state machines over the data store.               *)
(***************************************************************************)
EXTENDS Integers, Sequences, FiniteSets, TLC

VARIABLES
    rateLimitMap,     \* the rate limiter's Map<ip, {count, resetTime}>
    now,              \* Date.now()
    rlCalls,          \* per ip: rateLimit calls seen in the window that is open
    rlOks,            \* per ip: how many of them returned true
    rlLast,           \* the last rateLimit call: ip, result, whether it opened a window
    users,            \* table User: id -> [role, isActive]
    roleAssignments,  \* table RoleAssignment: user id -> roles
    rolePermissions,  \* tables RolePermission/Permission: role -> {<<module, action>>}
    permResult,       \* the last hasPermission / requirePermission call and its outcome
    leads,            \* table Lead: id -> [status, assignedTo, priority, source]
    orders,           \* table Order, in insertion order; an order's id is its index
    payments,         \* table Payment, in insertion order
    auditLogs,        \* table AuditLog, in insertion order
    notifications,    \* table Notification, in insertion order
    resp,             \* the last response a request handler returned
    nreq,             \* requests handled so far
    nfault,           \* requests that met an injected store failure so far
    listResp,         \* the last listing response
    reqs              \* order-creation requests in flight (interleaved handler steps)

vars == <<rateLimitMap, now, rlCalls, rlOks, rlLast, users, roleAssignments,
          rolePermissions, permResult, leads, orders, payments, auditLogs,
          notifications, resp, nreq, nfault, listResp, reqs>>

rateVars  == <<rateLimitMap, now, rlCalls, rlOks, rlLast>>
permVars  == <<users, roleAssignments, rolePermissions, permResult>>
storeVars == <<leads, orders, payments, auditLogs, notifications>>

(***************************************************************************)
(* Bounds of the model.                                                    *)
(***************************************************************************)
MaxNow      == 5   \* the clock stops here
MaxRlCalls  == 5   \* rateLimit calls per ip in one window that the model follows
Limit       == 2   \* the limit argument the rate-limiter runs pass
WindowMs    == 2   \* the windowMs argument the rate-limiter runs pass

NoRecord == [count |-> 0, resetTime |-> -1]   \* rateLimitMap.get(ip) === undefined
IPs      == {"ip1", "ip2"}

(***************************************************************************)
(* Rate limiter                                                            *)
(***************************************************************************)
\* if (!record || now > record.resetTime): the call opens a new window
RateLimitOpens(map, ip, t) ==
    map[ip] = NoRecord \/ t > map[ip].resetTime

\* a boundary slip: the count is compared with <= limit, letting one more call in
RateLimitAllowsOffByOne(map, ip, limit, t) ==
    \/ RateLimitOpens(map, ip, t)
    \/ map[ip].count <= limit

\* the value rateLimit(ip, limit, windowMs) returns
RateLimitAllows(map, ip, limit, t) ==
    \/ RateLimitOpens(map, ip, t)
    \/ ~(map[ip].count >= limit)

\* a slip: a denied call is counted too
RateLimitMapAfterCountingDenied(map, ip, limit, windowMs, t) ==
    IF RateLimitOpens(map, ip, t)
    THEN [map EXCEPT ![ip] = [count |-> 1, resetTime |-> t + windowMs]]
    ELSE [map EXCEPT ![ip].count = @ + 1]

\* the map after rateLimit(ip, limit, windowMs)
RateLimitMapAfter(map, ip, limit, windowMs, t) ==
    IF RateLimitOpens(map, ip, t)
    THEN [map EXCEPT ![ip] = [count |-> 1, resetTime |-> t + windowMs]]
    ELSE IF map[ip].count >= limit
         THEN map
         ELSE [map EXCEPT ![ip].count = @ + 1]

\* a slip: the sweep deletes an entry from the instant its window ends
SweepMapAtReset(map, t) ==
    [ip \in DOMAIN map |->
        IF map[ip] # NoRecord /\ t >= map[ip].resetTime THEN NoRecord ELSE map[ip]]

\* the setInterval callback: delete every entry with now > resetTime
SweepMap(map, t) ==
    [ip \in DOMAIN map |->
        IF map[ip] # NoRecord /\ t > map[ip].resetTime THEN NoRecord ELSE map[ip]]

NoRlCall == [ip |-> "none", ok |-> FALSE, opened |-> FALSE, at |-> 0, rec |-> NoRecord,
             unswept |-> FALSE]

\* The map as the same calls would have left it had the sweep never run.
Unswept == [ip \in IPs |-> rlCalls[ip].unswept]

\* One rateLimit(ip, Limit, WindowMs) call.  rlCalls/rlOks follow the window by
\* the clock alone: a window opened by a call at time s is open while
\* now <= s + WindowMs.  rlLast keeps what the call returned and the entry it left.
\* rlCalls[ip].unswept is the client's entry in a map that takes the same calls and
\* is never swept; rlLast.unswept is what the call returns on that map.
RateLimitCall(ip) ==
    LET ok     == RateLimitAllows(rateLimitMap, ip, Limit, now)
        isOpen == rlCalls[ip].n > 0 /\ now <= rlCalls[ip].start + WindowMs
    IN /\ isOpen => rlCalls[ip].n < MaxRlCalls
       /\ rateLimitMap' = RateLimitMapAfter(rateLimitMap, ip, Limit, WindowMs, now)
       /\ rlLast' = [ip |-> ip, ok |-> ok, opened |-> ~isOpen, at |-> now,
                     rec |-> rateLimitMap'[ip],
                     unswept |-> RateLimitAllows(Unswept, ip, Limit, now)]
       /\ rlCalls' = [rlCalls EXCEPT ![ip] =
                         [n       |-> IF isOpen THEN @.n + 1 ELSE 1,
                          start   |-> IF isOpen THEN @.start ELSE now,
                          unswept |-> RateLimitMapAfter(Unswept, ip, Limit,
                                                        WindowMs, now)[ip]]]
       /\ rlOks' = [rlOks EXCEPT ![ip] =
                         IF isOpen THEN @ + (IF ok THEN 1 ELSE 0)
                                   ELSE (IF ok THEN 1 ELSE 0)]
       /\ UNCHANGED <<now, permVars, storeVars, resp, nreq, nfault, listResp, reqs>>

Tick ==
    /\ now < MaxNow
    /\ now' = now + 1
    /\ UNCHANGED <<rateLimitMap, rlCalls, rlOks, rlLast, permVars, storeVars,
                   resp, nreq, nfault, listResp, reqs>>

Sweep ==
    /\ rateLimitMap' = SweepMap(rateLimitMap, now)
    /\ rateLimitMap' # rateLimitMap
    /\ UNCHANGED <<now, rlCalls, rlOks, rlLast, permVars, storeVars,
                   resp, nreq, nfault, listResp, reqs>>

(***************************************************************************)
(* Permission checker                                                      *)
(***************************************************************************)
NoUser  == [role |-> "NONE", isActive |-> FALSE]   \* findUnique returned null
Roles   == {"r1", "r2"}
Modules == {"leads", "orders"}
PermActions == {"read", "update"}
Perms   == [module : Modules, action : PermActions]

\* prisma.user.findUnique({ where: { id } })
FindUser(userId) ==
    IF userId \in DOMAIN users THEN users[userId] ELSE NoUser

\* a slip: the permission is matched on its module alone
HasPermissionModuleOnly(userId, module, action) ==
    LET user == FindUser(userId)
    IN  IF user = NoUser THEN FALSE
        ELSE IF user.role = "ADMIN" THEN TRUE
        ELSE \E ra \in roleAssignments[userId] :
                \E rp \in rolePermissions[ra] : rp.module = module

\* hasPermission(userId, module, action)
HasPermission(userId, module, action) ==
    LET user == FindUser(userId)
    IN  IF user = NoUser THEN FALSE
        ELSE IF user.role = "ADMIN" THEN TRUE
        ELSE \E ra \in roleAssignments[userId] :
                \E rp \in rolePermissions[ra] :
                    rp.module = module /\ rp.action = action

\* requirePermission(userId, module, action) throws 'Insufficient permissions'
RequirePermissionThrows(userId, module, action) ==
    ~HasPermission(userId, module, action)

NoPermCall == [fn |-> "none", userId |-> "none", module |-> "none",
               action |-> "none", has |-> FALSE, threw |-> FALSE]

CallHasPermission(userId, module, action) ==
    /\ permResult' = [fn |-> "hasPermission", userId |-> userId, module |-> module,
                      action |-> action,
                      has |-> HasPermission(userId, module, action), threw |-> FALSE]
    /\ UNCHANGED <<rateVars, users, roleAssignments, rolePermissions, storeVars,
                   resp, nreq, nfault, listResp, reqs>>

CallRequirePermission(userId, module, action) ==
    /\ permResult' = [fn |-> "requirePermission", userId |-> userId,
                      module |-> module, action |-> action,
                      has |-> HasPermission(userId, module, action),
                      threw |-> RequirePermissionThrows(userId, module, action)]
    /\ UNCHANGED <<rateVars, users, roleAssignments, rolePermissions, storeVars,
                   resp, nreq, nfault, listResp, reqs>>

(***************************************************************************)
(* The data store and the request handlers                                 *)
(***************************************************************************)
MaxRequests == 1   \* requests one run of the handlers makes
MaxFaults   == 1   \* of which so many meet a store failure
MaxAmount   == 2   \* amounts of money a request body carries: 0..MaxAmount
MaxOrders   == 2   \* orders the store holds

DefaultLimit    == 100      \* rateLimit(ip, limit = 100, ...)
DefaultWindowMs == 900000   \* rateLimit(ip, ..., windowMs = 15 * 60 * 1000)

NoSession == "anon"     \* getServerSession() gave no user id
Absent    == "absent"   \* a key the request body does not carry
None      == -1         \* a number the request body does not carry

UserTable ==
    [u \in {"a1", "a2", "a3", "e1", "e2"} |->
        CASE u = "a1" -> [role |-> "ADMIN", isActive |-> TRUE]
          [] u = "a2" -> [role |-> "ADMIN", isActive |-> TRUE]
          [] u = "a3" -> [role |-> "ADMIN", isActive |-> FALSE]
          [] OTHER    -> [role |-> "EMPLOYEE", isActive |-> TRUE]]

Actors    == {"a1", "e1", "e2"}       \* the users who send requests
Assignees == {"a1", "e1", "e2"}       \* the user ids request bodies name
LeadIds   == {1, 2, 3}
LeadStatuses  == {"NEW", "CONTACTED", "QUALIFIED", "CONVERTED", "LOST"}
OrderStatuses == {"PENDING", "PAYMENT_RECEIVED", "DISPATCHED", "IN_TRANSIT",
                  "DELIVERED", "PAID", "RETURNED", "CANCELLED"}
OrderNumbers  == 1..MaxOrders         \* what generateOrderNumber can return

NoLead == [status |-> "NONE", assignedTo |-> "none", priority |-> "NONE",
           source |-> "NONE"]

\* A store call that fails during the request (a simulated store failure).
Faults ==
    [kind : {"none", "audit", "adminLookup", "userLookup", "orderWrite",
             "payment", "leadWrite"}, user : {"none"}]
    \cup [kind : {"notify"}, user : {"a1", "e2"}]

NoFault == [kind |-> "none", user |-> "none"]

\* session.user.role
SessionRole(actor) ==
    IF actor \in DOMAIN users THEN users[actor].role ELSE "NONE"

\* a deleted row; its id is not handed out again
GoneLead == [status |-> "GONE", assignedTo |-> "none", priority |-> "NONE",
             source |-> "NONE"]

\* prisma.lead.findUnique({ where: { id } })
FindLead(leadId) ==
    IF leadId \in DOMAIN leads /\ leads[leadId] # GoneLead
    THEN leads[leadId] ELSE NoLead

\* a slip: the isActive condition is left out
AdminsActiveOrNot == {u \in DOMAIN users : users[u].role = "ADMIN"}

\* prisma.user.findMany({ where: { role: 'ADMIN', isActive: true } })
ActiveAdmins ==
    {u \in DOMAIN users : users[u].role = "ADMIN" /\ users[u].isActive}

OrdersOfLead(leadId) ==
    {i \in 1..Len(orders) : orders[i].leadId = leadId}

PaymentsOfOrder(orderId) ==
    {i \in 1..Len(payments) : payments[i].orderId = orderId}

\* a slip: the catch block rethrows
CreateAuditLogRethrows(fault) == fault.kind = "audit"

\* createAuditLog: whether the call throws.  The store write sits in try/catch
\* and the catch only logs.
CreateAuditLogThrows(fault) == FALSE

\* createAuditLog: the audit table after the call
CreateAuditLog(logs, fault, userId, action, entityType, entityId) ==
    IF fault.kind = "audit"
    THEN logs
    ELSE Append(logs, [userId |-> userId, action |-> action,
                       entityType |-> entityType, entityId |-> entityId])

\* createNotification: the notification table after the call; a failed create is
\* caught and null returned
CreateNotification(ns, fault, userId, type, entityType, entityId) ==
    IF fault.kind = "notify" /\ fault.user = userId
    THEN ns
    ELSE Append(ns, [userId |-> userId, type |-> type, entityType |-> entityType,
                     entityId |-> entityId, read |-> FALSE, readAt |-> None])

\* for (const admin of admins) await createNotification({ userId: admin.id, ... })
RECURSIVE NotifyEach(_, _, _, _, _, _)
NotifyEach(ns, fault, recipients, type, entityType, entityId) ==
    IF recipients = {} THEN ns
    ELSE LET u == CHOOSE x \in recipients : TRUE
         IN  NotifyEach(CreateNotification(ns, fault, u, type, entityType, entityId),
                        fault, recipients \ {u}, type, entityType, entityId)

\* The tables as one value, and a handler's outcome: the response status, the
\* tables it leaves, and whether its main write was committed.
Store == [leads |-> leads, orders |-> orders, payments |-> payments,
          auditLogs |-> auditLogs, notifications |-> notifications]

Out(status, store, committed) ==
    [status |-> status, store |-> store, committed |-> committed]

\* a slip: a rejected request leaves an audit entry behind
RejectedAudited(status) ==
    Out(status, [Store EXCEPT !.auditLogs =
                    Append(auditLogs, [userId |-> "none", action |-> "REJECTED",
                                       entityType |-> "none", entityId |-> 0])],
        FALSE)

\* return NextResponse.json({ error }, { status }) ahead of the handler's first
\* write: the 400, 403 and 404 answers
Rejected(status) == Out(status, Store, FALSE)

NoResp == [op |-> "none", status |-> 0, actor |-> "none", role |-> "NONE",
           own |-> FALSE, fault |-> NoFault, committed |-> FALSE]

\* The gates every write handler opens with, then the handler's own outcome:
\*   session absent -> 401;  rateLimit(ip) false -> 429;  else out.
\* resp keeps the handler, the status answered, the session's user and role, whether
\* the session's user is the assignee of the lead or order addressed (own), the
\* store failure injected and whether the handler's main write was committed.
Request(op, actor, ip, fault, own, out, plain) ==
    /\ nreq < MaxRequests
    /\ nreq' = nreq + 1
    \* a failure injected where the request makes no such call is no failure
    /\ nfault' = IF fault # NoFault THEN nfault + 1 ELSE nfault
    /\ fault # NoFault =>
          /\ nfault < MaxFaults
          /\ actor # NoSession
          /\ RateLimitAllows(rateLimitMap, ip, DefaultLimit, now)
          /\ out # plain
    /\ IF actor = NoSession
       THEN /\ resp' = [op |-> op, status |-> 401, actor |-> actor, role |-> "NONE",
                        own |-> FALSE, fault |-> fault, committed |-> FALSE]
            /\ UNCHANGED <<rateLimitMap, storeVars>>
       ELSE /\ rateLimitMap' = RateLimitMapAfter(rateLimitMap, ip, DefaultLimit,
                                                 DefaultWindowMs, now)
            /\ IF ~RateLimitAllows(rateLimitMap, ip, DefaultLimit, now)
               THEN /\ resp' = [op |-> op, status |-> 429, actor |-> actor,
                                role |-> SessionRole(actor), own |-> own,
                                fault |-> fault, committed |-> FALSE]
                    /\ UNCHANGED storeVars
               ELSE /\ resp' = [op |-> op, status |-> out.status, actor |-> actor,
                                role |-> SessionRole(actor), own |-> own,
                                fault |-> fault, committed |-> out.committed]
                    /\ leads' = out.store.leads
                    /\ orders' = out.store.orders
                    /\ payments' = out.store.payments
                    /\ auditLogs' = out.store.auditLogs
                    /\ notifications' = out.store.notifications
    /\ UNCHANGED <<now, rlCalls, rlOks, rlLast, permVars, listResp, reqs>>

(***************************************************************************)
(* POST /api/orders: convert a lead into an order                          *)
(***************************************************************************)
\* const assignedTo = role === 'ADMIN' ? (body.assignedTo || session.user.id)
\*                                     : session.user.id
OrderAssignee(actor, bodyAssignedTo) ==
    IF SessionRole(actor) = "ADMIN"
    THEN (IF bodyAssignedTo # Absent THEN bodyAssignedTo ELSE actor)
    ELSE actor

\* The order number is unique in the store: findUnique({ where: { orderNumber } })
\* looks it up by a unique key.
OrderNumberTaken(os, number) ==
    \E i \in 1..Len(os) : os[i].orderNumber = number

\* a slip: the initial payment is written for an amount of zero too
InitialPaymentAlways(amount) == TRUE

\* if (data.receivedAmount > 0): the order gets its INITIAL payment
InitialPaymentDue(amount) == amount > 0

\* a slip: the writes of a failed request are undone
AfterCatchRolledBack(written) == Store

\* catch (error) { ... return 500 }: the writes made before the failure are not
\* undone; the handler opens no transaction
AfterCatch(written) == written

CreateOrderOut(actor, valid, leadId, amount, paymentStatus, bodyAssignedTo, number, fault) ==
    LET lead       == FindLead(leadId)
        assignedTo == OrderAssignee(actor, bodyAssignedTo)
        order      == [leadId |-> leadId, orderNumber |-> number,
                       assignedTo |-> assignedTo, bookedBy |-> actor,
                       status |-> "PENDING", receivedAmount |-> amount,
                       paymentStatus |-> paymentStatus, dispatchedBy |-> Absent,
                       dispatchDate |-> None]
        orderId    == Len(orders) + 1
        s1 == [Store EXCEPT !.orders = Append(orders, order)]
        s2 == IF InitialPaymentDue(amount)
              THEN [s1 EXCEPT !.payments =
                       Append(payments, [orderId |-> orderId, amount |-> amount,
                                         paymentType |-> "INITIAL",
                                         receivedBy |-> actor])]
              ELSE s1
        s3 == [s2 EXCEPT !.leads = [leads EXCEPT ![leadId].status = "CONVERTED"]]
        s4 == [s3 EXCEPT !.auditLogs =
                  CreateAuditLog(auditLogs, fault, actor, "CREATE", "Order", orderId)]
        s5 == IF assignedTo # actor
              THEN [s4 EXCEPT !.notifications =
                       CreateNotification(notifications, fault, assignedTo,
                                          "ORDER_CREATED", "Order", orderId)]
              ELSE s4
        s6 == IF SessionRole(actor) = "EMPLOYEE"
              THEN [s5 EXCEPT !.notifications =
                       NotifyEach(s5.notifications, fault, ActiveAdmins,
                                  "ORDER_CREATED", "Order", orderId)]
              ELSE s5
    IN  IF ~valid THEN Rejected(400)
        ELSE IF lead = NoLead THEN Rejected(404)
        ELSE IF fault.kind = "orderWrite" THEN Out(500, Store, FALSE)
        ELSE IF InitialPaymentDue(amount) /\ fault.kind = "payment"
             THEN Out(500, AfterCatch(s1), TRUE)
        ELSE IF fault.kind = "leadWrite" THEN Out(500, AfterCatch(s2), TRUE)
        ELSE IF CreateAuditLogThrows(fault) THEN Out(500, AfterCatch(s3), TRUE)
        ELSE IF SessionRole(actor) = "EMPLOYEE" /\ fault.kind = "adminLookup"
             THEN Out(500, AfterCatch(s5), TRUE)
        ELSE Out(201, s6, TRUE)

CreateOrder(actor, valid, leadId, amount, paymentStatus, bodyAssignedTo, number, fault) ==
    /\ Len(orders) < MaxOrders
    \* the while loop ends with a number the store does not hold; the runs take
    \* the least such number
    /\ ~OrderNumberTaken(orders, number)
    /\ \A m \in OrderNumbers : ~OrderNumberTaken(orders, m) => number <= m
    /\ Request("CreateOrder", actor, "ip1", fault,
               FindLead(leadId).assignedTo = actor,
               CreateOrderOut(actor, valid, leadId, amount, paymentStatus,
                              bodyAssignedTo, number, fault),
               CreateOrderOut(actor, valid, leadId, amount, paymentStatus,
                              bodyAssignedTo, number, NoFault))

(***************************************************************************)
(* PATCH /api/orders/[id]                                                  *)
(***************************************************************************)
\* a slip: the dispatch stamp is written whenever the status DISPATCHED is set
OrderAfterUpdateRestamps(existing, actor, status, amount, dispatchDate) ==
    LET o1 == IF status # Absent THEN [existing EXCEPT !.status = status]
              ELSE existing
        o2 == IF amount # None THEN [o1 EXCEPT !.receivedAmount = amount] ELSE o1
        o3 == IF dispatchDate # None THEN [o2 EXCEPT !.dispatchDate = dispatchDate]
              ELSE o2
    IN  IF status = "DISPATCHED"
        THEN [o3 EXCEPT !.dispatchedBy = actor,
                        !.dispatchDate = IF dispatchDate # None THEN dispatchDate
                                         ELSE now]
        ELSE o3

\* const updateData = { ...data } and the dispatch stamp: dispatchedBy, and
\* dispatchDate = new Date() when the body carries none
OrderAfterUpdate(existing, actor, status, amount, dispatchDate) ==
    LET o1 == IF status # Absent THEN [existing EXCEPT !.status = status]
              ELSE existing
        o2 == IF amount # None THEN [o1 EXCEPT !.receivedAmount = amount] ELSE o1
        o3 == IF dispatchDate # None THEN [o2 EXCEPT !.dispatchDate = dispatchDate]
              ELSE o2
    IN  IF status = "DISPATCHED" /\ existing.dispatchedBy = Absent
        THEN [o3 EXCEPT !.dispatchedBy = actor,
                        !.dispatchDate = IF dispatchDate # None THEN dispatchDate
                                         ELSE now]
        ELSE o3

\* a slip: an update to the amount the order already holds counts as an increase
PaymentIncreaseOrEqual(existing, amount) ==
    amount # None /\ amount # 0 /\ amount >= existing.receivedAmount

\* data.receivedAmount && Number(data.receivedAmount) > Number(existing.receivedAmount)
PaymentIncrease(existing, amount) ==
    amount # None /\ amount # 0 /\ amount > existing.receivedAmount

UpdateOrderOut(actor, valid, orderId, status, amount, dispatchDate, fault) ==
    LET existing == orders[orderId]
        order    == OrderAfterUpdate(existing, actor, status, amount, dispatchDate)
        role     == SessionRole(actor)
        s1 == IF PaymentIncrease(existing, amount)
              THEN [Store EXCEPT !.payments =
                       Append(payments,
                              [orderId |-> orderId,
                               amount |-> amount - existing.receivedAmount,
                               paymentType |-> IF existing.receivedAmount > 0
                                               THEN "PARTIAL" ELSE "INITIAL",
                               receivedBy |-> actor])]
              ELSE Store
        s2 == [s1 EXCEPT !.orders = [orders EXCEPT ![orderId] = order]]
        s3 == [s2 EXCEPT !.auditLogs =
                  CreateAuditLog(auditLogs, fault, actor, "UPDATE", "Order", orderId)]
        changed == status # Absent /\ status # existing.status
        s4 == IF changed /\ order.assignedTo # actor
              THEN [s3 EXCEPT !.notifications =
                       CreateNotification(notifications, fault, order.assignedTo,
                                          "ORDER_STATUS_CHANGED", "Order", orderId)]
              ELSE s3
        s5 == IF changed /\ role = "EMPLOYEE"
              THEN [s4 EXCEPT !.notifications =
                       NotifyEach(s4.notifications, fault, ActiveAdmins,
                                  "ORDER_STATUS_CHANGED", "Order", orderId)]
              ELSE s4
        s6 == IF changed /\ status = "DISPATCHED"
              THEN [s5 EXCEPT !.notifications =
                       CreateNotification(s5.notifications, fault, order.assignedTo,
                                          "ORDER_DISPATCHED", "Order", orderId)]
              ELSE s5
        s7 == IF PaymentIncrease(existing, amount) /\ order.assignedTo # actor
              THEN [s6 EXCEPT !.notifications =
                       CreateNotification(s6.notifications, fault, order.assignedTo,
                                          "PAYMENT_RECEIVED", "Order", orderId)]
              ELSE s6
    IN  IF orderId \notin 1..Len(orders) THEN Rejected(404)
        ELSE IF role = "EMPLOYEE" /\ existing.assignedTo # actor
             THEN Rejected(403)
        ELSE IF ~valid THEN Rejected(400)
        ELSE IF PaymentIncrease(existing, amount) /\ fault.kind = "payment"
             THEN Out(500, Store, FALSE)
        ELSE IF fault.kind = "orderWrite" THEN Out(500, s1, FALSE)
        ELSE IF CreateAuditLogThrows(fault) THEN Out(500, s2, TRUE)
        ELSE IF changed /\ role = "EMPLOYEE" /\ fault.kind = "adminLookup"
             THEN Out(500, s4, TRUE)
        ELSE Out(200, s7, TRUE)

UpdateOrder(actor, valid, orderId, status, amount, dispatchDate, fault) ==
    Request("UpdateOrder", actor, "ip1", fault,
            orderId \in 1..Len(orders) /\ orders[orderId].assignedTo = actor,
            UpdateOrderOut(actor, valid, orderId, status, amount, dispatchDate, fault),
            UpdateOrderOut(actor, valid, orderId, status, amount, dispatchDate,
                           NoFault))

(***************************************************************************)
(* POST /api/leads, PATCH and DELETE /api/leads/[id], POST bulk-assign     *)
(***************************************************************************)
FreeLeadIds == {id \in LeadIds : leads[id] = NoLead}

CreateLeadOut(actor, valid, leadId, bodyStatus, bodyPriority, bodySource, bodyAssignedTo, fault) ==
    LET role       == SessionRole(actor)
        assignedTo == OrderAssignee(actor, bodyAssignedTo)
        lead == [status |-> IF bodyStatus # Absent THEN bodyStatus ELSE "NEW",
                 assignedTo |-> assignedTo,
                 priority |-> IF bodyPriority # Absent THEN bodyPriority ELSE "MEDIUM",
                 source |-> IF bodySource # Absent THEN bodySource ELSE "OTHER"]
        s1 == [Store EXCEPT !.leads = [leads EXCEPT ![leadId] = lead]]
        s2 == [s1 EXCEPT !.auditLogs =
                  CreateAuditLog(auditLogs, fault, actor, "CREATE", "Lead", leadId)]
        s3 == IF assignedTo # actor
              THEN [s2 EXCEPT !.notifications =
                       CreateNotification(notifications, fault, assignedTo,
                                          "LEAD_ASSIGNED", "Lead", leadId)]
              ELSE s2
        \* currentUser?.role, read from the User table
        s4 == IF FindUser(actor).role = "EMPLOYEE"
              THEN [s3 EXCEPT !.notifications =
                       NotifyEach(s3.notifications, fault, ActiveAdmins,
                                  "LEAD_ASSIGNED", "Lead", leadId)]
              ELSE s3
    IN  IF ~valid THEN Rejected(400)
        ELSE IF fault.kind = "leadWrite" THEN Out(500, Store, FALSE)
        ELSE IF CreateAuditLogThrows(fault) THEN Out(500, s1, TRUE)
        ELSE IF fault.kind = "userLookup" THEN Out(500, s2, TRUE)
        ELSE IF FindUser(actor).role = "EMPLOYEE" /\ fault.kind = "adminLookup"
             THEN Out(500, s3, TRUE)
        ELSE Out(201, s4, TRUE)

CreateLead(actor, valid, bodyStatus, bodyPriority, bodySource, bodyAssignedTo, fault) ==
    /\ FreeLeadIds # {}
    /\ LET leadId == CHOOSE id \in FreeLeadIds : \A other \in FreeLeadIds : id <= other
       IN  Request("CreateLead", actor, "ip1", fault, FALSE,
                   CreateLeadOut(actor, valid, leadId, bodyStatus, bodyPriority,
                                 bodySource, bodyAssignedTo, fault),
                   CreateLeadOut(actor, valid, leadId, bodyStatus, bodyPriority,
                                 bodySource, bodyAssignedTo, NoFault))

\* Employees cannot reassign leads: the assignedTo key is deleted from the body
\* The update data without the employee strip (the body's assignedTo is kept).
LeadUpdateDataUnstripped(actor, bodyStatus, bodyAssignedTo) ==
    [status |-> bodyStatus, assignedTo |-> bodyAssignedTo]

LeadUpdateData(actor, bodyStatus, bodyAssignedTo) ==
    [status |-> bodyStatus,
     assignedTo |-> IF SessionRole(actor) = "EMPLOYEE" THEN Absent
                    ELSE bodyAssignedTo]

UpdateLeadOut(actor, valid, leadId, bodyStatus, bodyAssignedTo, fault) ==
    LET existing   == FindLead(leadId)
        updateData == LeadUpdateData(actor, bodyStatus, bodyAssignedTo)
        l1   == IF updateData.status # Absent
                THEN [existing EXCEPT !.status = updateData.status] ELSE existing
        lead == IF updateData.assignedTo # Absent
                THEN [l1 EXCEPT !.assignedTo = updateData.assignedTo] ELSE l1
        role == FindUser(actor).role
        s1 == [Store EXCEPT !.leads = [leads EXCEPT ![leadId] = lead]]
        s2 == [s1 EXCEPT !.auditLogs =
                  CreateAuditLog(auditLogs, fault, actor, "UPDATE", "Lead", leadId)]
        s3 == IF updateData.assignedTo # Absent
                 /\ updateData.assignedTo # existing.assignedTo
              THEN [s2 EXCEPT !.notifications =
                       CreateNotification(notifications, fault, updateData.assignedTo,
                                          "LEAD_ASSIGNED", "Lead", leadId)]
              ELSE s2
        changed == updateData.status # Absent /\ updateData.status # existing.status
        s4 == IF changed /\ role = "ADMIN" /\ lead.assignedTo # actor
              THEN [s3 EXCEPT !.notifications =
                       CreateNotification(s3.notifications, fault, lead.assignedTo,
                                          "LEAD_STATUS_CHANGED", "Lead", leadId)]
              ELSE s3
        s5 == IF changed /\ role = "EMPLOYEE"
              THEN [s4 EXCEPT !.notifications =
                       NotifyEach(s4.notifications, fault, ActiveAdmins,
                                  "LEAD_STATUS_CHANGED", "Lead", leadId)]
              ELSE s4
    IN  IF existing = NoLead THEN Rejected(404)
        ELSE IF SessionRole(actor) = "EMPLOYEE" /\ existing.assignedTo # actor
             THEN Rejected(403)
        ELSE IF ~valid THEN Rejected(400)
        ELSE IF fault.kind = "userLookup" THEN Out(500, Store, FALSE)
        ELSE IF fault.kind = "leadWrite" THEN Out(500, Store, FALSE)
        ELSE IF CreateAuditLogThrows(fault) THEN Out(500, s1, TRUE)
        ELSE IF changed /\ role = "EMPLOYEE" /\ fault.kind = "adminLookup"
             THEN Out(500, s4, TRUE)
        ELSE Out(200, s5, TRUE)

UpdateLead(actor, valid, leadId, bodyStatus, bodyAssignedTo, fault) ==
    Request("UpdateLead", actor, "ip1", fault, FindLead(leadId).assignedTo = actor,
            UpdateLeadOut(actor, valid, leadId, bodyStatus, bodyAssignedTo, fault),
            UpdateLeadOut(actor, valid, leadId, bodyStatus, bodyAssignedTo, NoFault))

DeleteLeadOut(actor, leadId, fault) ==
    LET lead == FindLead(leadId)
        s1 == [Store EXCEPT !.leads = [leads EXCEPT ![leadId] = GoneLead]]
        s2 == [s1 EXCEPT !.auditLogs =
                  CreateAuditLog(auditLogs, fault, actor, "DELETE", "Lead", leadId)]
    IN  IF lead = NoLead THEN Rejected(404)
        ELSE IF SessionRole(actor) = "EMPLOYEE" /\ lead.assignedTo # actor
             THEN Rejected(403)
        ELSE IF fault.kind = "leadWrite" THEN Out(500, Store, FALSE)
        ELSE IF CreateAuditLogThrows(fault) THEN Out(500, s1, TRUE)
        ELSE Out(200, s2, TRUE)

\* The runs delete leads that no order references: what the store does with the
\* orders of a deleted lead is fixed by its schema, not by the handler.
DeleteLead(actor, leadId, fault) ==
    /\ OrdersOfLead(leadId) = {}
    /\ Request("DeleteLead", actor, "ip1", fault, FindLead(leadId).assignedTo = actor,
               DeleteLeadOut(actor, leadId, fault),
               DeleteLeadOut(actor, leadId, NoFault))

\* for (const leadId of leadIds) await createAuditLog(..., 'ASSIGN', 'Lead', leadId, ...)
RECURSIVE AuditEach(_, _, _, _)
AuditEach(logs, fault, actor, ids) ==
    IF ids = {} THEN logs
    ELSE LET id == CHOOSE x \in ids : \A y \in ids : x <= y
         IN  AuditEach(CreateAuditLog(logs, fault, actor, "ASSIGN", "Lead", id),
                       fault, actor, ids \ {id})

BulkAssignOut(actor, valid, leadIds, assignedTo, fault) ==
    LET s1 == [Store EXCEPT !.leads =
                  [id \in DOMAIN leads |->
                      IF id \in leadIds /\ FindLead(id) # NoLead
                      THEN [leads[id] EXCEPT !.assignedTo = assignedTo]
                      ELSE leads[id]]]
        s2 == [s1 EXCEPT !.auditLogs = AuditEach(auditLogs, fault, actor, leadIds)]
    IN  IF RequirePermissionThrows(actor, "leads", "update") THEN Rejected(403)
        ELSE IF ~valid THEN Rejected(400)
        ELSE IF fault.kind = "userLookup" THEN Out(500, Store, FALSE)
        ELSE IF FindUser(assignedTo) = NoUser THEN Rejected(404)
        ELSE IF fault.kind = "leadWrite" THEN Out(500, Store, FALSE)
        ELSE IF CreateAuditLogThrows(fault) /\ leadIds # {} THEN Out(500, s1, TRUE)
        ELSE Out(200, s2, TRUE)

BulkAssign(actor, valid, leadIds, assignedTo, fault) ==
    Request("BulkAssign", actor, "ip1", fault, FALSE,
            BulkAssignOut(actor, valid, leadIds, assignedTo, fault),
            BulkAssignOut(actor, valid, leadIds, assignedTo, NoFault))

(***************************************************************************)
(* PATCH /api/notifications: mark one notification, or all, as read        *)
(***************************************************************************)
\* The scope of both writes with the user condition left out.
AnyNotification(n, actor) == TRUE

\* where: { ..., userId: session.user.id }
OwnNotification(n, actor) == n.userId = actor

MarkedRead(n) == [n EXCEPT !.read = TRUE, !.readAt = now]

\* The handler after its session check; it makes no call of rateLimit.
MarkReadOut(actor, markAllAsRead, notificationId) ==
    IF markAllAsRead
    THEN Out(200,
             [Store EXCEPT !.notifications =
                 [i \in 1..Len(notifications) |->
                     IF OwnNotification(notifications[i], actor)
                        /\ ~notifications[i].read
                     THEN MarkedRead(notifications[i]) ELSE notifications[i]]],
             TRUE)
    ELSE IF notificationId # None
    THEN IF /\ notificationId \in 1..Len(notifications)
            /\ OwnNotification(notifications[notificationId], actor)
         THEN Out(200,
                  [Store EXCEPT !.notifications[notificationId] =
                      MarkedRead(notifications[notificationId])],
                  TRUE)
         \* the update finds no record and throws
         ELSE Out(500, Store, FALSE)
    ELSE Rejected(400)

MarkRead(actor, markAllAsRead, notificationId) ==
    LET out == MarkReadOut(actor, markAllAsRead, notificationId)
    IN  /\ nreq < MaxRequests
        /\ nreq' = nreq + 1
        /\ IF actor = NoSession
           THEN /\ resp' = [op |-> "MarkRead", status |-> 401, actor |-> actor,
                            role |-> "NONE", own |-> FALSE, fault |-> NoFault,
                            committed |-> FALSE]
                /\ UNCHANGED notifications
           ELSE /\ resp' = [op |-> "MarkRead", status |-> out.status,
                            actor |-> actor, role |-> SessionRole(actor),
                            own |-> FALSE, fault |-> NoFault,
                            committed |-> out.committed]
                /\ notifications' = out.store.notifications
        /\ UNCHANGED <<rateVars, permVars, leads, orders, payments, auditLogs,
                       nfault, listResp, reqs>>

(***************************************************************************)
(* Specification of the request handlers                                   *)
(***************************************************************************)
\* What the request bodies of a run carry.
BodyAssignees   == {Absent, "e2"}
BodyLeadStatus  == {Absent, "CONTACTED", "CONVERTED"}
BodyOrderStatus == {Absent, "DISPATCHED"}
BodyAmounts     == 0..MaxAmount
BodyDates       == {None, 3}
BulkTargets     == {"e2", "zz"}
BodyNotificationIds == {None, 1, 2}
Sessions        == Actors \cup {NoSession}

FaultKinds(kinds) == {f \in Faults : f.kind \in kinds}

\* A request that fails a gate before its body is used carries a plain body.
Plain(actor, valid, fault) ==
    (actor = NoSession \/ ~valid) => fault = NoFault

InertRate ==
    /\ now = 0
    /\ rlCalls = [ip \in IPs |-> [n |-> 0, start |-> 0, unswept |-> NoRecord]]
    /\ rlOks = [ip \in IPs |-> 0]
    /\ rlLast = NoRlCall

InertPerm ==
    /\ users = UserTable
    /\ roleAssignments = [u \in DOMAIN UserTable |-> IF u = "e2" THEN {"r1"} ELSE {}]
    /\ rolePermissions =
          [r \in Roles |-> IF r = "r1"
                           THEN {[module |-> "leads", action |-> "update"]} ELSE {}]
    /\ permResult = NoPermCall

InertStore ==
    /\ leads = [id \in LeadIds |-> NoLead]
    /\ orders = <<>>
    /\ payments = <<>>
    /\ auditLogs = <<>>
    /\ notifications = <<>>
    /\ resp = NoResp
    /\ nreq = 0
    /\ nfault = 0

NoListResp == [kind |-> "none", status |-> 0, actor |-> "none", role |-> "NONE",
               statusParam |-> Absent, rows |-> {}, total |-> 0]

\* Lead 1 is e1's, lead 2 is e2's, both NEW; no lead has been converted.
FreshStore ==
    [leads |-> [id \in LeadIds |->
                  CASE id = 1 -> [status |-> "NEW", assignedTo |-> "e1",
                                  priority |-> "MEDIUM", source |-> "OTHER"]
                    [] id = 2 -> [status |-> "NEW", assignedTo |-> "e2",
                                  priority |-> "MEDIUM", source |-> "OTHER"]
                    [] OTHER  -> NoLead],
     orders |-> <<>>, payments |-> <<>>, auditLogs |-> <<>>, notifications |-> <<>>]

\* FreshStore after employee e1 has converted lead 1 with 1 received: lead 1 is
\* CONVERTED and has order 1 with its INITIAL payment, the CREATE audit entry and
\* the ORDER_CREATED notifications of the active admins.
ConvertedStore ==
    [leads |-> [FreshStore.leads EXCEPT ![1].status = "CONVERTED"],
     orders |-> <<[leadId |-> 1, orderNumber |-> 1, assignedTo |-> "e1",
                   bookedBy |-> "e1", status |-> "PENDING", receivedAmount |-> 1,
                   paymentStatus |-> "PARTIAL", dispatchedBy |-> Absent,
                   dispatchDate |-> None]>>,
     payments |-> <<[orderId |-> 1, amount |-> 1, paymentType |-> "INITIAL",
                     receivedBy |-> "e1"]>>,
     auditLogs |-> <<[userId |-> "e1", action |-> "CREATE", entityType |-> "Order",
                      entityId |-> 1]>>,
     notifications |->
          <<[userId |-> "a1", type |-> "ORDER_CREATED", entityType |-> "Order",
             entityId |-> 1, read |-> FALSE, readAt |-> None],
            [userId |-> "a2", type |-> "ORDER_CREATED", entityType |-> "Order",
             entityId |-> 1, read |-> FALSE, readAt |-> None]>>]

\* FreshStore after admin a1 has converted lead 2 with nothing received, the
\* order assigned to e2, and then set the order's status to DISPATCHED.
DispatchedStore ==
    [leads |-> [FreshStore.leads EXCEPT ![2].status = "CONVERTED"],
     orders |-> <<[leadId |-> 2, orderNumber |-> 1, assignedTo |-> "e2",
                   bookedBy |-> "a1", status |-> "DISPATCHED", receivedAmount |-> 0,
                   paymentStatus |-> "PARTIAL", dispatchedBy |-> "a1",
                   dispatchDate |-> 0]>>,
     payments |-> <<>>,
     auditLogs |-> <<[userId |-> "a1", action |-> "CREATE", entityType |-> "Order",
                      entityId |-> 1],
                     [userId |-> "a1", action |-> "UPDATE", entityType |-> "Order",
                      entityId |-> 1]>>,
     notifications |->
          <<[userId |-> "e2", type |-> "ORDER_CREATED", entityType |-> "Order",
             entityId |-> 1, read |-> FALSE, readAt |-> None],
            [userId |-> "e2", type |-> "ORDER_STATUS_CHANGED", entityType |-> "Order",
             entityId |-> 1, read |-> FALSE, readAt |-> None],
            [userId |-> "e2", type |-> "ORDER_DISPATCHED", entityType |-> "Order",
             entityId |-> 1, read |-> FALSE, readAt |-> None]>>]

\* The handlers start from one of the stores; the limiter's window for the client
\* is not yet open, or is open and used up.
Init ==
    /\ InertRate
    /\ InertPerm
    /\ rateLimitMap \in
          {[ip \in IPs |-> NoRecord],
           [ip \in IPs |-> IF ip = "ip1"
                           THEN [count |-> DefaultLimit,
                                 resetTime |-> DefaultWindowMs]
                           ELSE NoRecord]}
    /\ \E s \in {FreshStore, ConvertedStore, DispatchedStore} :
          /\ leads = s.leads
          /\ orders = s.orders
          /\ payments = s.payments
          /\ auditLogs = s.auditLogs
          /\ notifications = s.notifications
    /\ resp = NoResp
    /\ nreq = 0
    /\ nfault = 0
    /\ listResp = NoListResp
    /\ reqs = <<>>

ReqCreateOrder ==
    /\ nreq < MaxRequests
    /\ \E actor \in Sessions, valid \in BOOLEAN, leadId \in LeadIds,
          amount \in BodyAmounts, bodyAssignedTo \in BodyAssignees,
          number \in OrderNumbers,
          fault \in FaultKinds({"none", "audit", "adminLookup", "orderWrite",
                                "payment", "leadWrite", "notify"}) :
          /\ Plain(actor, valid, fault)
          /\ CreateOrder(actor, valid, leadId, amount, "PARTIAL", bodyAssignedTo,
                         number, fault)

\* the ids of the orders in the store, and one id that matches no order
ReqUpdateOrder ==
    /\ nreq < MaxRequests
    /\ \E actor \in Sessions, valid \in BOOLEAN, orderId \in 1..(Len(orders) + 1),
          status \in BodyOrderStatus, amount \in BodyAmounts \cup {None},
          dispatchDate \in BodyDates,
          fault \in FaultKinds({"none", "audit", "adminLookup", "orderWrite",
                                "payment", "notify"}) :
          /\ Plain(actor, valid, fault)
          /\ UpdateOrder(actor, valid, orderId, status, amount, dispatchDate, fault)

ReqCreateLead ==
    /\ nreq < MaxRequests
    /\ \E actor \in Sessions, valid \in BOOLEAN, bodyStatus \in {Absent, "CONTACTED"},
          bodyAssignedTo \in BodyAssignees,
          fault \in FaultKinds({"none", "audit", "adminLookup", "userLookup",
                                "leadWrite", "notify"}) :
          /\ Plain(actor, valid, fault)
          /\ CreateLead(actor, valid, bodyStatus, Absent, Absent, bodyAssignedTo, fault)

ReqUpdateLead ==
    /\ nreq < MaxRequests
    /\ \E actor \in Sessions, valid \in BOOLEAN, leadId \in LeadIds,
          bodyStatus \in BodyLeadStatus, bodyAssignedTo \in BodyAssignees,
          fault \in FaultKinds({"none", "audit", "adminLookup", "userLookup",
                                "leadWrite", "notify"}) :
          /\ Plain(actor, valid, fault)
          /\ UpdateLead(actor, valid, leadId, bodyStatus, bodyAssignedTo, fault)

ReqDeleteLead ==
    /\ nreq < MaxRequests
    /\ \E actor \in Sessions, leadId \in LeadIds,
          fault \in FaultKinds({"none", "audit", "leadWrite"}) :
          /\ Plain(actor, TRUE, fault)
          /\ DeleteLead(actor, leadId, fault)

ReqBulkAssign ==
    /\ nreq < MaxRequests
    /\ \E actor \in Sessions, valid \in BOOLEAN, leadIds \in SUBSET LeadIds,
          assignedTo \in BulkTargets,
          fault \in FaultKinds({"none", "audit", "userLookup", "leadWrite"}) :
          /\ Plain(actor, valid, fault)
          /\ BulkAssign(actor, valid, leadIds, assignedTo, fault)

ReqMarkRead ==
    /\ nreq < MaxRequests
    /\ \E actor \in Sessions, markAllAsRead \in BOOLEAN,
          notificationId \in BodyNotificationIds :
          MarkRead(actor, markAllAsRead, notificationId)

Next ==
    \/ ReqCreateOrder
    \/ ReqUpdateOrder
    \/ ReqCreateLead
    \/ ReqUpdateLead
    \/ ReqDeleteLead
    \/ ReqBulkAssign
    \/ ReqMarkRead

Spec == Init /\ [][Next]_vars

(***************************************************************************)
(* Specification of the rate limiter alone: calls from two clients, the    *)
(* clock and the periodic sweep, in any order.                             *)
(***************************************************************************)
InitRate ==
    /\ rateLimitMap = [ip \in IPs |-> NoRecord]
    /\ InertRate
    /\ InertPerm
    /\ InertStore
    /\ listResp = NoListResp
    /\ reqs = <<>>

CallRateLimit == \E ip \in IPs : RateLimitCall(ip)

NextRate ==
    \/ CallRateLimit
    \/ Tick
    \/ Sweep

SpecRate == InitRate /\ [][NextRate]_vars

Min(a, b) == IF a <= b THEN a ELSE b

\* C5: for one client and limit Limit, of the calls made while a window is open
\* exactly the first Limit return true and every later one false; a call made
\* when no window is open (none yet, or the last one elapsed) returns true and
\* leaves the entry {count: 1, resetTime: now + WindowMs}.
C5_FirstNAllowedThenDenied ==
    /\ \A ip \in IPs : rlOks[ip] = Min(rlCalls[ip].n, Limit)
    /\ rlLast.ip # "none" => (rlLast.ok <=> rlCalls[rlLast.ip].n <= Limit)
    /\ rlLast.opened =>
          /\ rlLast.ok
          /\ rlLast.rec = [count |-> 1, resetTime |-> rlLast.at + WindowMs]

\* a call is denied in one client's window, and later a call of that client
\* opens the next window
C5_Witness_DeniedThenReopened ==
    /\ rlLast.ip # "none"
    /\ rlLast.opened
    /\ rlLast.at > WindowMs
    /\ \E ip \in IPs : ip # rlLast.ip /\ rlCalls[ip].n = Limit + 1
                       /\ rlOks[ip] = Limit

(***************************************************************************)
(* Specification of the permission checker: any permission graph over one  *)
(* stored user, and calls for that user and for an id the store lacks.     *)
(***************************************************************************)
PermUserIds == {"u1"}
PermCallIds == {"u1", "u2"}

InitPerm ==
    /\ rateLimitMap = [ip \in IPs |-> NoRecord]
    /\ InertRate
    /\ InertStore
    /\ listResp = NoListResp
    /\ reqs = <<>>
    /\ \E D \in SUBSET PermUserIds :
          /\ users \in [D -> [role : {"ADMIN", "EMPLOYEE"}, isActive : {TRUE}]]
          /\ roleAssignments \in [D -> SUBSET Roles]
    /\ rolePermissions \in [Roles -> SUBSET Perms]
    /\ permResult = NoPermCall

DoHasPermission ==
    \E userId \in PermCallIds, module \in Modules, action \in PermActions :
        CallHasPermission(userId, module, action)

DoRequirePermission ==
    \E userId \in PermCallIds, module \in Modules, action \in PermActions :
        CallRequirePermission(userId, module, action)

NextPerm ==
    \/ DoHasPermission
    \/ DoRequirePermission

SpecPerm == InitPerm /\ [][NextPerm]_vars

\* the permissions the roles assigned to a user carry
GrantedTo(userId) ==
    UNION {rolePermissions[r] : r \in roleAssignments[userId]}

\* C10: hasPermission is true for every stored ADMIN whatever the role
\* assignments; for a stored non-admin it is true iff one of the user's roles
\* carries exactly the permission (module, action); for an id the store lacks it
\* is false; requirePermission throws exactly when hasPermission is false.
C10_HasPermissionContract ==
    permResult.fn # "none" =>
        LET u == permResult.userId
            p == [module |-> permResult.module, action |-> permResult.action]
        IN  /\ u \notin DOMAIN users => ~permResult.has
            /\ u \in DOMAIN users /\ users[u].role = "ADMIN" => permResult.has
            /\ u \in DOMAIN users /\ users[u].role # "ADMIN" =>
                  (permResult.has <=> p \in GrantedTo(u))
            /\ permResult.fn = "requirePermission" =>
                  (permResult.threw <=> ~permResult.has)

\* an employee whose role grants the module with another action only is refused
C10_Witness_ModuleMatchesActionDiffers ==
    /\ permResult.fn = "requirePermission"
    /\ permResult.userId \in DOMAIN users
    /\ users[permResult.userId].role = "EMPLOYEE"
    /\ permResult.threw
    /\ \E p \in GrantedTo(permResult.userId) :
          p.module = permResult.module /\ p.action # permResult.action

(***************************************************************************)
(* Properties of the request handlers (specification Spec)                 *)
(***************************************************************************)
RECURSIVE SumAmounts(_)
SumAmounts(idx) ==
    IF idx = {} THEN 0
    ELSE LET i == CHOOSE x \in idx : TRUE
         IN  payments[i].amount + SumAmounts(idx \ {i})

\* C1: whatever order creations have run, every lead is referenced by at most
\* one order.
C1_LeadHasAtMostOneOrder ==
    \A leadId \in LeadIds : Cardinality(OrdersOfLead(leadId)) <= 1

\* C2: in every reachable state the amounts of an order's payments add up to
\* the order's receivedAmount.
C2_PaymentsSumToReceived ==
    \A orderId \in 1..Len(orders) :
        SumAmounts(PaymentsOfOrder(orderId)) = orders[orderId].receivedAmount

\* C3: no step lowers the receivedAmount of an order.
C3_ReceivedNeverDecreases ==
    [][\A orderId \in 1..Len(orders) :
          orders'[orderId].receivedAmount >= orders[orderId].receivedAmount]_vars

\* C6: when the audit-log write fails during a lead or order mutation (create,
\* update, delete, bulk assign), createAuditLog returns normally: the request is
\* answered with success, the mutation is in the store and no audit row is.
C6_AuditFailureIsSwallowed ==
    [][(nreq' = nreq + 1 /\ resp'.fault.kind = "audit") =>
          /\ resp'.status \in {200, 201}
          /\ resp'.committed
          /\ auditLogs' = auditLogs
          /\ resp'.op = "CreateOrder" =>
                /\ Len(orders') = Len(orders) + 1
                /\ leads'[orders'[Len(orders')].leadId].status = "CONVERTED"
          /\ resp'.op = "CreateLead" =>
                \E id \in LeadIds : leads[id] = NoLead /\ leads'[id] # NoLead
          /\ resp'.op = "DeleteLead" =>
                \E id \in LeadIds : leads[id] # GoneLead /\ leads'[id] = GoneLead
          /\ resp'.op \in {"UpdateLead", "BulkAssign"} => Len(orders') = Len(orders)
      ]_vars

\* a second order is created while the audit write fails: the order is there,
\* its audit row is not
C6_Witness_AuditWriteFailed ==
    /\ resp.fault.kind = "audit"
    /\ resp.op = "CreateOrder"
    /\ resp.status = 201
    /\ Len(orders) = 2
    /\ Len(auditLogs) = 1

\* C7: once the mutation is committed, no failure of a notification step (the
\* creation of an inbox item, the lookup of the active admins) changes the
\* answer: the request is still answered with success.
C7_NotificationFailureNotSurfaced ==
    (resp.fault.kind \in {"notify", "adminLookup"} /\ resp.committed)
        => resp.status \in {200, 201}

\* C9: an order creation by an EMPLOYEE for a lead assigned to another user is
\* rejected: no success answer, no order, no payment, no change of lead status.
C9_EmployeeCannotConvertForeignLead ==
    [][(nreq' = nreq + 1 /\ resp'.op = "CreateOrder" /\ resp'.role = "EMPLOYEE"
            /\ ~resp'.own) =>
          /\ resp'.status \notin {200, 201}
          /\ orders' = orders
          /\ payments' = payments
          /\ leads' = leads]_vars

(***************************************************************************)
(* GET /api/leads and GET /api/orders: the listings                        *)
(***************************************************************************)
\* a slip: the listing builds its where clause without the assignee
IsolationDropped(actor) == Absent

\* where.assignedTo = session.user.id, set for the role EMPLOYEE only
Isolation(actor) ==
    IF SessionRole(actor) = "EMPLOYEE" THEN actor ELSE Absent

\* What the text columns and dates of the rows hold: the search term "x" occurs in
\* lead 1 and in the number of order 2; a lead's createdAt is its id; an order's
\* dispatchDate is the column of that name.
LeadContains(leadId, search) == search = "x" /\ leadId = 1
OrderContains(orderId, search) ==
    \/ search = "x" /\ orderId = 2
    \/ LeadContains(orders[orderId].leadId, search)
CreatedAt(leadId) == leadId
DispatchDate(orderId) == orders[orderId].dispatchDate

InRange(date, startDate, endDate) ==
    (startDate # None \/ endDate # None) =>
        /\ date # None
        /\ startDate # None => date >= startDate
        /\ endDate # None => date <= endDate

\* prisma.lead.findMany({ where }): the keys of where are ANDed
LeadMatches(leadId, q, actor) ==
    LET lead == leads[leadId]
        assignedTo == Isolation(actor)
    IN  /\ lead # NoLead /\ lead # GoneLead
        /\ assignedTo # Absent => lead.assignedTo = assignedTo
        /\ IF q.status # Absent THEN lead.status = q.status
           ELSE lead.status # "CONVERTED"
        /\ q.priority # Absent => lead.priority = q.priority
        /\ q.source # Absent => lead.source = q.source
        /\ InRange(CreatedAt(leadId), q.startDate, q.endDate)
        /\ q.search # Absent => LeadContains(leadId, q.search)

\* prisma.order.findMany({ where })
OrderMatches(orderId, q, actor) ==
    LET order == orders[orderId]
        assignedTo == Isolation(actor)
    IN  /\ assignedTo # Absent => order.assignedTo = assignedTo
        /\ q.status # Absent => order.status = q.status
        /\ q.paymentStatus # Absent => order.paymentStatus = q.paymentStatus
        /\ InRange(DispatchDate(orderId), q.startDate, q.endDate)
        /\ q.search # Absent => OrderContains(orderId, q.search)

\* orderBy: { createdAt: 'desc' }, skip: (page - 1) * limit, take: limit
PageOf(matching, page, limit) ==
    {id \in matching :
        LET before == Cardinality({other \in matching : other > id})
        IN  before >= (page - 1) * limit /\ before < page * limit}

\* The gates and the answer of a listing: 401, 429, or the page and the count.
Listing(kind, actor, ip, statusParam, matching, page, limit) ==
    /\ nreq < MaxRequests
    /\ nreq' = nreq + 1
    /\ IF actor = NoSession
       THEN /\ listResp' = [NoListResp EXCEPT !.kind = kind, !.status = 401]
            /\ UNCHANGED rateLimitMap
       ELSE /\ rateLimitMap' = RateLimitMapAfter(rateLimitMap, ip, DefaultLimit,
                                                 DefaultWindowMs, now)
            /\ IF ~RateLimitAllows(rateLimitMap, ip, DefaultLimit, now)
               THEN listResp' = [NoListResp EXCEPT !.kind = kind, !.status = 429,
                                    !.actor = actor, !.role = SessionRole(actor)]
               ELSE listResp' = [kind |-> kind, status |-> 200, actor |-> actor,
                                 role |-> SessionRole(actor),
                                 statusParam |-> statusParam,
                                 rows |-> PageOf(matching, page, limit),
                                 total |-> Cardinality(matching)]
    /\ UNCHANGED <<now, rlCalls, rlOks, rlLast, permVars, storeVars, resp, nfault,
                   reqs>>

ListLeads(actor, q, page, limit) ==
    Listing("leads", actor, "ip1", q.status,
            {id \in LeadIds : LeadMatches(id, q, actor)}, page, limit)

\* GET /api/leads of src/app/api/leads/route.ts: the where clause carries a
\* status only when the request names one
LeadMatchesRoute(leadId, q, actor) ==
    LET lead == leads[leadId]
        assignedTo == Isolation(actor)
    IN  /\ lead # NoLead /\ lead # GoneLead
        /\ assignedTo # Absent => lead.assignedTo = assignedTo
        /\ q.status # Absent => lead.status = q.status
        /\ q.priority # Absent => lead.priority = q.priority
        /\ q.source # Absent => lead.source = q.source
        /\ InRange(CreatedAt(leadId), q.startDate, q.endDate)
        /\ q.search # Absent => LeadContains(leadId, q.search)

ListLeadsRoute(actor, q, page, limit) ==
    Listing("leads", actor, "ip1", q.status,
            {id \in LeadIds : LeadMatchesRoute(id, q, actor)}, page, limit)

ListOrders(actor, q, page, limit) ==
    Listing("orders", actor, "ip1", q.status,
            {id \in 1..Len(orders) : OrderMatches(id, q, actor)}, page, limit)

(***************************************************************************)
(* Specification of the listings: any two leads or any two orders in the   *)
(* store, and one listing request with any combination of filters.         *)
(***************************************************************************)
ListLeadRows ==
    [status : {"NEW", "CONVERTED"}, assignedTo : {"e1", "e2"},
     priority : {"MEDIUM", "HIGH"}, source : {"OTHER"}]

ListOrderRows ==
    [leadId : {1}, orderNumber : {1}, assignedTo : {"e1", "e2"}, bookedBy : {"a1"},
     status : {"PENDING", "DISPATCHED"}, receivedAmount : {0},
     paymentStatus : {"PARTIAL"}, dispatchedBy : {Absent}, dispatchDate : {None, 2}]

LeadQueries ==
    [status : {Absent, "NEW", "CONVERTED"}, priority : {Absent, "HIGH"},
     source : {Absent, "OTHER"}, startDate : {None, 2}, endDate : {None, 1},
     search : {Absent, "x"}]

OrderQueries ==
    [status : {Absent, "DISPATCHED"}, paymentStatus : {Absent, "PARTIAL"},
     startDate : {None, 2}, endDate : {None, 1}, search : {Absent, "x"}]

\* the first page of the default size, and the second page of size one
Pages == {[page |-> 1, limit |-> 20], [page |-> 2, limit |-> 1]}

InitList ==
    /\ InertRate
    /\ InertPerm
    /\ rateLimitMap \in
          {[ip \in IPs |-> NoRecord],
           [ip \in IPs |-> IF ip = "ip1"
                           THEN [count |-> DefaultLimit,
                                 resetTime |-> DefaultWindowMs]
                           ELSE NoRecord]}
    /\ \/ /\ \E l1 \in ListLeadRows, l2 \in ListLeadRows :
                leads = [id \in LeadIds |-> CASE id = 1 -> l1 [] id = 2 -> l2
                                              [] OTHER -> NoLead]
          /\ orders = <<>>
       \/ /\ leads = ConvertedStore.leads
          /\ \E o1 \in ListOrderRows, o2 \in ListOrderRows :
                orders = <<o1, [o2 EXCEPT !.orderNumber = 2]>>
    /\ payments = <<>>
    /\ auditLogs = <<>>
    /\ notifications = <<>>
    /\ resp = NoResp
    /\ nreq = 0
    /\ nfault = 0
    /\ listResp = NoListResp
    /\ reqs = <<>>

ReqListLeads ==
    /\ nreq < MaxRequests
    /\ \E actor \in Sessions, q \in LeadQueries, pg \in Pages :
          ListLeads(actor, q, pg.page, pg.limit)

\* the routed copy differs from ListLeads in the status clause only: its requests
\* vary the status, priority and date filters
RouteQueries == {q \in LeadQueries : q.source = Absent /\ q.search = Absent}

ReqListLeadsRoute ==
    /\ nreq < MaxRequests
    /\ \E actor \in Sessions, q \in RouteQueries, pg \in Pages :
          ListLeadsRoute(actor, q, pg.page, pg.limit)

ReqListOrders ==
    /\ nreq < MaxRequests
    /\ \E actor \in Sessions, q \in OrderQueries, pg \in Pages :
          ListOrders(actor, q, pg.page, pg.limit)

NextList ==
    \/ ReqListLeads
    \/ ReqListLeadsRoute
    \/ ReqListOrders

SpecList == InitList /\ [][NextList]_vars

\* the rows of a listing's table that are assigned to a user
OwnRows(kind, actor) ==
    IF kind = "leads"
    THEN {id \in LeadIds : leads[id].assignedTo = actor}
    ELSE {id \in 1..Len(orders) : orders[id].assignedTo = actor}

\* C4: whatever filters a lead or order listing of an EMPLOYEE carries (status,
\* priority, source, paymentStatus, date range, search), every row returned is
\* assigned to the requester and the total counts rows of the requester only.
C4_EmployeeListingsAreIsolated ==
    (listResp.status = 200 /\ listResp.role = "EMPLOYEE") =>
        /\ listResp.rows \subseteq OwnRows(listResp.kind, listResp.actor)
        /\ listResp.total <= Cardinality(OwnRows(listResp.kind, listResp.actor))
        /\ Cardinality(listResp.rows) <= listResp.total

\* an employee lists orders, gets an own row, and the store holds an order of
\* another user
C4_Witness_ForeignRowHeldBack ==
    /\ listResp.status = 200
    /\ listResp.role = "EMPLOYEE"
    /\ listResp.kind = "orders"
    /\ listResp.total = 1
    /\ listResp.rows # {}
    /\ Len(orders) = 2
    /\ OwnRows("orders", listResp.actor) # {1, 2}

(***************************************************************************)
(* POST /api/orders, request by request between its awaits: requests in    *)
(* flight together, each at its own position in the handler.               *)
(***************************************************************************)
MaxConc == 2   \* order creations in flight together

\* a slip: the store accepts an order number it already holds
InsertNeverRejected(os, number) == FALSE

\* prisma.order.create: the store refuses a second row with an orderNumber it
\* holds (orderNumber is a unique key of Order; the handler looks orders up by
\* it with findUnique).
InsertRejected(os, number) == OrderNumberTaken(os, number)

ConcReq(actor, leadId, amount, number, pc, status, orderId) ==
    [actor |-> actor, leadId |-> leadId, amount |-> amount, number |-> number,
     pc |-> pc, status |-> status, orderId |-> orderId]

\* session, rateLimit, parse, lead lookup, the first generateOrderNumber()
ConcBegin(actor, leadId, amount, number) ==
    /\ Len(reqs) < MaxConc
    /\ rateLimitMap' = RateLimitMapAfter(rateLimitMap, "ip1", DefaultLimit,
                                         DefaultWindowMs, now)
    /\ reqs' = Append(reqs,
                 IF ~RateLimitAllows(rateLimitMap, "ip1", DefaultLimit, now)
                 THEN ConcReq(actor, leadId, amount, number, "done", 429, 0)
                 ELSE IF FindLead(leadId) = NoLead
                 THEN ConcReq(actor, leadId, amount, number, "done", 404, 0)
                 ELSE ConcReq(actor, leadId, amount, number, "check", 0, 0))
    /\ UNCHANGED <<now, rlCalls, rlOks, rlLast, permVars, storeVars, resp, nreq,
                   nfault, listResp>>

\* exists = await prisma.order.findUnique({ where: { orderNumber } }); while it
\* exists the number is generated again
ConcCheck(i, regenerated) ==
    /\ i \in 1..Len(reqs)
    /\ reqs[i].pc = "check"
    /\ reqs' = IF OrderNumberTaken(orders, reqs[i].number)
               THEN [reqs EXCEPT ![i].number = regenerated]
               ELSE [reqs EXCEPT ![i].pc = "insert"]
    /\ UNCHANGED <<rateVars, rateLimitMap, permVars, storeVars, resp, nreq, nfault,
                   listResp>>

\* await prisma.order.create(...); a refused insert is answered 500
ConcInsert(i) ==
    /\ i \in 1..Len(reqs)
    /\ reqs[i].pc = "insert"
    /\ LET r == reqs[i]
       IN  IF InsertRejected(orders, r.number)
           THEN /\ reqs' = [reqs EXCEPT ![i].pc = "done", ![i].status = 500]
                /\ UNCHANGED orders
           ELSE /\ orders' = Append(orders,
                      [leadId |-> r.leadId, orderNumber |-> r.number,
                       assignedTo |-> OrderAssignee(r.actor, Absent),
                       bookedBy |-> r.actor, status |-> "PENDING",
                       receivedAmount |-> r.amount, paymentStatus |-> "PARTIAL",
                       dispatchedBy |-> Absent, dispatchDate |-> None])
                /\ reqs' = [reqs EXCEPT ![i].pc = "finish",
                                        ![i].orderId = Len(orders) + 1]
    /\ UNCHANGED <<rateVars, rateLimitMap, permVars, leads, payments, auditLogs,
                   notifications, resp, nreq, nfault, listResp>>

\* the initial payment, the lead's CONVERTED status, the audit row, the
\* notifications, and the answer 201
ConcFinish(i) ==
    /\ i \in 1..Len(reqs)
    /\ reqs[i].pc = "finish"
    /\ LET r == reqs[i]
       IN  /\ payments' = IF InitialPaymentDue(r.amount)
                          THEN Append(payments,
                                      [orderId |-> r.orderId, amount |-> r.amount,
                                       paymentType |-> "INITIAL",
                                       receivedBy |-> r.actor])
                          ELSE payments
           /\ leads' = [leads EXCEPT ![r.leadId].status = "CONVERTED"]
           /\ auditLogs' = CreateAuditLog(auditLogs, NoFault, r.actor, "CREATE",
                                          "Order", r.orderId)
           /\ notifications' =
                 IF SessionRole(r.actor) = "EMPLOYEE"
                 THEN NotifyEach(notifications, NoFault, ActiveAdmins,
                                 "ORDER_CREATED", "Order", r.orderId)
                 ELSE notifications
    /\ reqs' = [reqs EXCEPT ![i].pc = "done", ![i].status = 201]
    /\ UNCHANGED <<rateVars, rateLimitMap, permVars, orders, resp, nreq, nfault,
                   listResp>>

InitConc ==
    /\ InertRate
    /\ InertPerm
    /\ rateLimitMap = [ip \in IPs |-> NoRecord]
    /\ leads = FreshStore.leads
    /\ orders = <<>>
    /\ payments = <<>>
    /\ auditLogs = <<>>
    /\ notifications = <<>>
    /\ resp = NoResp
    /\ nreq = 0
    /\ nfault = 0
    /\ listResp = NoListResp
    /\ reqs = <<>>

DoConcBegin ==
    \E actor \in {"a1", "e1"}, leadId \in {1, 3}, number \in OrderNumbers :
        ConcBegin(actor, leadId, 1, number)

DoConcCheck ==
    \E i \in 1..MaxConc, regenerated \in OrderNumbers : ConcCheck(i, regenerated)

DoConcInsert == \E i \in 1..MaxConc : ConcInsert(i)

DoConcFinish == \E i \in 1..MaxConc : ConcFinish(i)

NextConc ==
    \/ DoConcBegin
    \/ DoConcCheck
    \/ DoConcInsert
    \/ DoConcFinish

SpecConc == InitConc /\ [][NextConc]_vars

\* C8: any two stored orders carry distinct order numbers, also when two
\* requests run together with the same candidate number: however the collision
\* checks and the inserts of the requests interleave, the two never both store
\* the number.
C8_OrderNumbersDistinct ==
    \A i, j \in 1..Len(orders) :
        i # j => orders[i].orderNumber # orders[j].orderNumber

\* two requests passed the collision check with the same number; one stored its
\* order and answered 201, the other's insert was refused
C8_Witness_SameCandidateOneStored ==
    \E i, j \in 1..Len(reqs) :
        /\ i # j
        /\ reqs[i].number = reqs[j].number
        /\ reqs[i].status = 201
        /\ reqs[j].status = 500

(***************************************************************************)
(* Properties of order updates, lead updates and bulk assignment           *)
(***************************************************************************)
\* C11: an order update that supplies a receivedAmount above the stored one
\* appends exactly one Payment, of amount new - stored and of type INITIAL when
\* the stored amount was zero, PARTIAL otherwise; an update that does not raise
\* receivedAmount appends no Payment.
C11_PaymentForTheDelta ==
    [][(nreq' = nreq + 1 /\ resp'.op = "UpdateOrder" /\ resp'.status = 200) =>
          LET raised == {i \in 1..Len(orders) :
                           orders'[i].receivedAmount > orders[i].receivedAmount}
          IN  IF raised = {} THEN payments' = payments
              ELSE \E i \in raised :
                      payments' =
                         Append(payments,
                                [orderId |-> i,
                                 amount |-> orders'[i].receivedAmount
                                            - orders[i].receivedAmount,
                                 paymentType |-> IF orders[i].receivedAmount = 0
                                                 THEN "INITIAL" ELSE "PARTIAL",
                                 receivedBy |-> resp'.actor])
      ]_vars

\* an order holding 1 with its INITIAL payment was raised to 2: a PARTIAL payment
\* of 1 follows
C11_Witness_PartialPaymentAppended ==
    /\ resp.op = "UpdateOrder"
    /\ resp.status = 200
    /\ Len(orders) = 1
    /\ orders[1].receivedAmount = 2
    /\ Len(payments) = 2
    /\ payments[2].paymentType = "PARTIAL"
    /\ payments[2].amount = 1

\* C12: an order update that sets the status DISPATCHED records the acting user
\* as dispatchedBy, with a dispatchDate, exactly when the order had no dispatcher;
\* a recorded dispatcher is changed by no later step of any actor.
C12_DispatcherStampedOnce ==
    [][\A i \in 1..Len(orders) :
          LET setsDispatched == /\ nreq' = nreq + 1
                                /\ resp'.op = "UpdateOrder"
                                /\ orders'[i].status = "DISPATCHED"
                                /\ orders[i].status # "DISPATCHED"
          IN  /\ orders[i].dispatchedBy # Absent =>
                    orders'[i].dispatchedBy = orders[i].dispatchedBy
              /\ (orders[i].dispatchedBy = Absent /\ setsDispatched) =>
                    /\ orders'[i].dispatchedBy = resp'.actor
                    /\ orders'[i].dispatchDate \in {now} \cup (BodyDates \ {None})
              /\ (orders[i].dispatchedBy = Absent /\ ~setsDispatched) =>
                    orders'[i].dispatchedBy = Absent
      ]_vars

\* e1 dispatches the own order, which had no dispatcher, with no date in the body
C12_Witness_DispatchStamped ==
    /\ resp.op = "UpdateOrder"
    /\ resp.status = 200
    /\ resp.actor = "e1"
    /\ Len(orders) = 1
    /\ orders[1].status = "DISPATCHED"
    /\ orders[1].dispatchedBy = "e1"
    /\ orders[1].dispatchDate = 0

\* The notifications of one type, in order of creation.
OfType(ns, type) == SelectSeq(ns, LAMBDA n : n.type = type)

\* C13: a lead update made by a user whose role is EMPLOYEE, whatever its body,
\* leaves the assignedTo of every Lead as it was and creates no LEAD_ASSIGNED
\* notification.
C13_EmployeeUpdateKeepsAssignee ==
    [][(nreq' = nreq + 1 /\ resp'.op = "UpdateLead" /\ resp'.role = "EMPLOYEE") =>
          /\ \A id \in DOMAIN leads : leads'[id].assignedTo = leads[id].assignedTo
          /\ OfType(notifications', "LEAD_ASSIGNED")
                = OfType(notifications, "LEAD_ASSIGNED")
      ]_vars

\* employee e1 has updated the own lead 1 (its status changed), which is still
\* assigned to e1
C13_Witness_EmployeeUpdatedOwnLead ==
    /\ resp.op = "UpdateLead"
    /\ resp.status = 200
    /\ resp.actor = "e1"
    /\ resp.role = "EMPLOYEE"
    /\ leads[1].status = "CONTACTED"
    /\ leads[1].assignedTo = "e1"

\* C14: a lead listing returns a Lead whose status is CONVERTED only when the
\* request passes status=CONVERTED; a listing with no status parameter returns no
\* CONVERTED lead.
C14_ConvertedLeadsHiddenByDefault ==
    (listResp.kind = "leads" /\ listResp.status = 200) =>
        \A id \in listResp.rows :
            leads[id].status = "CONVERTED" => listResp.statusParam = "CONVERTED"

\* C15: after a successful bulk assignment to user F every audit entry gained is
\* an ASSIGN entry naming a Lead that exists, one per Lead, the Leads named are
\* assigned to F and no other Lead has changed: ids that match no Lead gain no
\* audit entry.
C15_BulkAssignAuditsReassignedLeadsOnly ==
    [][(/\ nreq' = nreq + 1
        /\ resp'.op = "BulkAssign"
        /\ resp'.status = 200
        /\ resp'.fault = NoFault) =>
          LET new   == SubSeq(auditLogs', Len(auditLogs) + 1, Len(auditLogs'))
              named == {new[k].entityId : k \in 1..Len(new)}
          IN  /\ \A k \in 1..Len(new) :
                    /\ new[k].action = "ASSIGN"
                    /\ new[k].entityType = "Lead"
                    /\ FindLead(new[k].entityId) # NoLead
              /\ Cardinality(named) = Len(new)
              /\ \A id \in DOMAIN leads : id \notin named => leads'[id] = leads[id]
              /\ \E F \in DOMAIN users : \A id \in named : leads'[id].assignedTo = F
      ]_vars

\* C16: a bulk-assign request of a user whose role is not ADMIN, whatever role
\* assignments and permissions the user holds, is answered forbidden once past the
\* rate limiter, and changes no Lead's assignedTo.
C16_BulkAssignIsAdminOnly ==
    [][(/\ nreq' = nreq + 1
        /\ resp'.op = "BulkAssign"
        /\ resp'.role = "EMPLOYEE") =>
          /\ resp'.status \in {403, 429}
          /\ \A id \in DOMAIN leads : leads'[id].assignedTo = leads[id].assignedTo
      ]_vars

(***************************************************************************)
(* Properties of the rate-limit gate and of marking notifications as read  *)
(***************************************************************************)
\* C17: every state-mutating request of a signed-in user consults the limiter of
\* the client's IP, and a request that the limiter denies is answered 429 and
\* leaves every table as it was.
C17_DeniedRequestsMutateNothing ==
    [][(/\ nreq' = nreq + 1
        /\ resp'.actor # NoSession
        /\ ~RateLimitAllows(rateLimitMap, "ip1", DefaultLimit, now)) =>
          /\ resp'.status = 429
          /\ UNCHANGED storeVars
      ]_vars

\* C18: a notification's read flag and read timestamp change only in a mark-read
\* request of its own recipient, which sets the flag; no request of another user
\* changes or removes it.
C18_OnlyRecipientMarksRead ==
    [][\A i \in 1..Len(notifications) :
          /\ i <= Len(notifications')
          /\ notifications'[i] # notifications[i] =>
                /\ nreq' = nreq + 1
                /\ resp'.op = "MarkRead"
                /\ resp'.actor = notifications[i].userId
                /\ notifications'[i] = [notifications[i] EXCEPT !.read = TRUE, !.readAt = now]
      ]_vars

\* a1 has marked as read what a1 may mark; the notification of a2 is still unread
C18_Witness_ForeignNotificationUnread ==
    /\ resp.op = "MarkRead"
    /\ resp.status = 200
    /\ resp.actor = "a1"
    /\ Len(notifications) = 2
    /\ notifications[1].userId = "a1" /\ notifications[1].read
    /\ notifications[1].readAt = now
    /\ notifications[2].userId = "a2" /\ ~notifications[2].read
    /\ notifications[2].readAt = None

(***************************************************************************)
(* Properties of order creation and of the CONVERTED status                *)
(***************************************************************************)
\* C19: a successful order creation adds exactly one Order, with status PENDING
\* and bookedBy the actor, adds exactly one Payment of type INITIAL for the
\* supplied amount if and only if receivedAmount > 0, and leaves the source Lead
\* with status CONVERTED.
C19_CreateOrderPostconditions ==
    [][(nreq' = nreq + 1 /\ resp'.op = "CreateOrder" /\ resp'.status = 201) =>
          /\ Len(orders') = Len(orders) + 1
          /\ SubSeq(orders', 1, Len(orders)) = orders
          /\ LET orderId == Len(orders')
                 order   == orders'[orderId]
             IN  /\ order.status = "PENDING"
                 /\ order.bookedBy = resp'.actor
                 /\ payments' =
                       IF order.receivedAmount > 0
                       THEN Append(payments,
                                   [orderId |-> orderId,
                                    amount |-> order.receivedAmount,
                                    paymentType |-> "INITIAL",
                                    receivedBy |-> resp'.actor])
                       ELSE payments
                 /\ leads'[order.leadId].status = "CONVERTED"
      ]_vars

\* an order was created with nothing received: one order, no payment, the lead
\* CONVERTED
C19_Witness_OrderWithoutPayment ==
    /\ resp.op = "CreateOrder"
    /\ resp.status = 201
    /\ Len(orders) = 1
    /\ orders[1].status = "PENDING"
    /\ orders[1].bookedBy = resp.actor
    /\ orders[1].receivedAmount = 0
    /\ payments = <<>>
    /\ leads[orders[1].leadId].status = "CONVERTED"

\* C20: a Lead becomes CONVERTED only when an Order is created from it, so every
\* Lead whose status is CONVERTED has an Order referencing it.
C20_ConvertedLeadHasOrder ==
    \A id \in DOMAIN leads :
        leads[id].status = "CONVERTED" => OrdersOfLead(id) # {}

(***************************************************************************)
(* GET /api/leads/[id] and GET /api/orders/[id]: one record with what it    *)
(* includes. Neither handler calls rateLimit. The answer is kept in         *)
(* listResp: rows holds the ids of the orders the response body contains.   *)
(***************************************************************************)
\* ConvertedStore after admin a1 has bulk-assigned lead 1 to e2: the lead is
\* e2's, its order is still assigned to e1.
ReassignedStore ==
    [ConvertedStore EXCEPT
        !.leads[1].assignedTo = "e2",
        !.auditLogs = Append(ConvertedStore.auditLogs,
                             [userId |-> "a1", action |-> "ASSIGN",
                              entityType |-> "Lead", entityId |-> 1])]

\* The answer of a detail request after the session check.
DetailResp(kind, actor, status, orderIds) ==
    [kind |-> kind, status |-> status, actor |-> actor, role |-> SessionRole(actor),
     statusParam |-> Absent,
     rows |-> IF status = 200 THEN orderIds ELSE {},
     total |-> IF status = 200 THEN Cardinality(orderIds) ELSE 0]

\* include: { orders: { include: { payments } } }: every order of the lead
GetLeadOut(actor, leadId) ==
    LET lead == FindLead(leadId)
    IN  IF lead = NoLead THEN DetailResp("leadDetail", actor, 404, {})
        ELSE IF SessionRole(actor) = "EMPLOYEE" /\ lead.assignedTo # actor
             THEN DetailResp("leadDetail", actor, 403, {})
        ELSE DetailResp("leadDetail", actor, 200, OrdersOfLead(leadId))

GetOrderOut(actor, orderId) ==
    IF orderId \notin 1..Len(orders) THEN DetailResp("orderDetail", actor, 404, {})
    ELSE IF SessionRole(actor) = "EMPLOYEE" /\ orders[orderId].assignedTo # actor
         THEN DetailResp("orderDetail", actor, 403, {})
    ELSE DetailResp("orderDetail", actor, 200, {orderId})

Detail(kind, actor, out) ==
    /\ nreq < MaxRequests
    /\ nreq' = nreq + 1
    /\ listResp' = IF actor = NoSession
                   THEN [NoListResp EXCEPT !.kind = kind, !.status = 401]
                   ELSE out
    /\ UNCHANGED <<rateVars, permVars, storeVars, resp, nfault, reqs>>

GetLead(actor, leadId) == Detail("leadDetail", actor, GetLeadOut(actor, leadId))

GetOrder(actor, orderId) == Detail("orderDetail", actor, GetOrderOut(actor, orderId))

InitDetail ==
    /\ InertRate
    /\ InertPerm
    /\ rateLimitMap \in
          {[ip \in IPs |-> NoRecord],
           [ip \in IPs |-> IF ip = "ip1"
                           THEN [count |-> DefaultLimit,
                                 resetTime |-> DefaultWindowMs]
                           ELSE NoRecord]}
    /\ \E s \in {FreshStore, ConvertedStore, DispatchedStore, ReassignedStore} :
          /\ leads = s.leads
          /\ orders = s.orders
          /\ payments = s.payments
          /\ auditLogs = s.auditLogs
          /\ notifications = s.notifications
    /\ resp = NoResp
    /\ nreq = 0
    /\ nfault = 0
    /\ listResp = NoListResp
    /\ reqs = <<>>

ReqGetLead ==
    /\ nreq < MaxRequests
    /\ \E actor \in Sessions, leadId \in LeadIds : GetLead(actor, leadId)

\* the ids of the orders in the store, and one id that matches no order
ReqGetOrder ==
    /\ nreq < MaxRequests
    /\ \E actor \in Sessions, orderId \in 1..(Len(orders) + 1) :
          GetOrder(actor, orderId)

NextDetail ==
    \/ ReqGetLead
    \/ ReqGetOrder

SpecDetail == InitDetail /\ [][NextDetail]_vars

\* C21: no response to a user whose role is EMPLOYEE contains an Order whose
\* assignedTo differs from that user's id, in the order detail or in the orders
\* embedded in a lead detail, also when a lead and its order have different
\* assignees.
C21_EmployeeSeesOwnOrdersOnly ==
    (listResp.status = 200 /\ listResp.role = "EMPLOYEE") =>
        \A id \in listResp.rows : orders[id].assignedTo = listResp.actor

(***************************************************************************)
(* Properties of failed requests and of the effects of updates             *)
(***************************************************************************)
\* C22: an order creation that fails at the initial payment write or at the lead
\* update is answered 500 while its Order persists: the store has gained the
\* Order, the Lead's status is what it was (not set to CONVERTED by the request),
\* and after a failed payment write there is no initial Payment.
C22_FailedConversionKeepsOrder ==
    [][(/\ nreq' = nreq + 1
        /\ resp'.op = "CreateOrder"
        /\ resp'.fault.kind \in {"payment", "leadWrite"}) =>
          /\ resp'.status = 500
          /\ Len(orders') = Len(orders) + 1
          /\ SubSeq(orders', 1, Len(orders)) = orders
          /\ leads' = leads
          /\ resp'.fault.kind = "payment" => payments' = payments
          /\ resp'.fault.kind = "leadWrite" =>
                Len(payments') = Len(payments)
                   + (IF orders'[Len(orders')].receivedAmount > 0 THEN 1 ELSE 0)
      ]_vars

\* the lead update failed after the order and its payment were written: lead 1 has
\* an order and is still NEW
C22_Witness_OrderOfUnconvertedLead ==
    /\ resp.op = "CreateOrder"
    /\ resp.status = 500
    /\ resp.fault.kind = "leadWrite"
    /\ Len(orders) = 1
    /\ orders[1].leadId = 1
    /\ leads[1].status = "NEW"
    /\ Len(payments) = 1

(***************************************************************************)
(* PATCH /api/orders/[id] as the awaits of its code: several requests on   *)
(* the same order run together. reqs holds one record per request: the     *)
(* body, the row read by findUnique, the position and the answer.          *)
(***************************************************************************)
\* a slip: the write is refused when the row is no longer the one read
WriteRejectedIfStale(current, read) == current # read

\* prisma.order.update({ where: { id: params.id }, data: updateData }): the where
\* clause names the id only, no version or updatedAt
WriteRejected(current, read) == FALSE

\* The row after the write: the keys of updateData replace the columns of the row
\* as it is now; whether the dispatch stamp is among them was decided on the row
\* read at the start.
OrderWrite(current, read, actor, status, amount, dispatchDate) ==
    LET o1 == IF status # Absent THEN [current EXCEPT !.status = status] ELSE current
        o2 == IF amount # None THEN [o1 EXCEPT !.receivedAmount = amount] ELSE o1
        o3 == IF dispatchDate # None THEN [o2 EXCEPT !.dispatchDate = dispatchDate] ELSE o2
    IN  IF status = "DISPATCHED" /\ read.dispatchedBy = Absent
        THEN [o3 EXCEPT !.dispatchedBy = actor,
                        !.dispatchDate = IF dispatchDate # None THEN dispatchDate ELSE now]
        ELSE o3

RaceReq(actor, orderId, status, amount, read, pc, code) ==
    [actor |-> actor, orderId |-> orderId, status |-> status, amount |-> amount,
     read |-> read, pc |-> pc, code |-> code]

\* session, rateLimit, findUnique of the order, the employee's ownership check,
\* parse
RaceBegin(actor, orderId, status, amount) ==
    /\ Len(reqs) < MaxConc
    /\ orderId \in 1..Len(orders)
    /\ rateLimitMap' = RateLimitMapAfter(rateLimitMap, "ip1", DefaultLimit,
                                         DefaultWindowMs, now)
    /\ LET existing == orders[orderId]
       IN  reqs' = Append(reqs,
                 IF ~RateLimitAllows(rateLimitMap, "ip1", DefaultLimit, now)
                 THEN RaceReq(actor, orderId, status, amount, existing, "done", 429)
                 ELSE IF SessionRole(actor) = "EMPLOYEE" /\ existing.assignedTo # actor
                 THEN RaceReq(actor, orderId, status, amount, existing, "done", 403)
                 ELSE RaceReq(actor, orderId, status, amount, existing, "pay", 0))
    /\ UNCHANGED <<now, rlCalls, rlOks, rlLast, permVars, storeVars, resp, nreq,
                   nfault, listResp>>

\* the payment for the increase over the amount read
RacePay(i) ==
    /\ i \in 1..Len(reqs)
    /\ reqs[i].pc = "pay"
    /\ LET r == reqs[i]
       IN  payments' = IF PaymentIncrease(r.read, r.amount)
                       THEN Append(payments,
                                   [orderId |-> r.orderId,
                                    amount |-> r.amount - r.read.receivedAmount,
                                    paymentType |-> IF r.read.receivedAmount > 0
                                                    THEN "PARTIAL" ELSE "INITIAL",
                                    receivedBy |-> r.actor])
                       ELSE payments
    /\ reqs' = [reqs EXCEPT ![i].pc = "write"]
    /\ UNCHANGED <<rateVars, permVars, leads, orders, auditLogs, notifications,
                   resp, nreq, nfault, listResp>>

\* await prisma.order.update(...)
RaceWrite(i) ==
    /\ i \in 1..Len(reqs)
    /\ reqs[i].pc = "write"
    /\ LET r == reqs[i]
       IN  IF WriteRejected(orders[r.orderId], r.read)
           THEN /\ reqs' = [reqs EXCEPT ![i].pc = "done", ![i].code = 500]
                /\ UNCHANGED orders
           ELSE /\ orders' = [orders EXCEPT ![r.orderId] =
                                 OrderWrite(orders[r.orderId], r.read, r.actor,
                                            r.status, r.amount, None)]
                /\ reqs' = [reqs EXCEPT ![i].pc = "finish"]
    /\ UNCHANGED <<rateVars, permVars, leads, payments, auditLogs, notifications,
                   resp, nreq, nfault, listResp>>

\* the audit row, the notifications (status change, dispatch, payment) and the
\* answer 200
RaceFinish(i) ==
    /\ i \in 1..Len(reqs)
    /\ reqs[i].pc = "finish"
    /\ LET r        == reqs[i]
           assignee == orders[r.orderId].assignedTo
           changed  == r.status # Absent /\ r.status # r.read.status
           n1 == IF changed /\ assignee # r.actor
                 THEN CreateNotification(notifications, NoFault, assignee,
                                         "ORDER_STATUS_CHANGED", "Order", r.orderId)
                 ELSE notifications
           n2 == IF changed /\ SessionRole(r.actor) = "EMPLOYEE"
                 THEN NotifyEach(n1, NoFault, ActiveAdmins,
                                 "ORDER_STATUS_CHANGED", "Order", r.orderId)
                 ELSE n1
           n3 == IF changed /\ r.status = "DISPATCHED"
                 THEN CreateNotification(n2, NoFault, assignee,
                                         "ORDER_DISPATCHED", "Order", r.orderId)
                 ELSE n2
           n4 == IF PaymentIncrease(r.read, r.amount) /\ assignee # r.actor
                 THEN CreateNotification(n3, NoFault, assignee,
                                         "PAYMENT_RECEIVED", "Order", r.orderId)
                 ELSE n3
       IN  /\ auditLogs' = CreateAuditLog(auditLogs, NoFault, r.actor, "UPDATE",
                                          "Order", r.orderId)
           /\ notifications' = n4
    /\ reqs' = [reqs EXCEPT ![i].pc = "done", ![i].code = 200]
    /\ UNCHANGED <<rateVars, permVars, leads, orders, payments, resp, nreq, nfault,
                   listResp>>

\* Order 1 is e1's and holds 1 with its INITIAL payment.
InitRace ==
    /\ InertRate
    /\ InertPerm
    /\ rateLimitMap = [ip \in IPs |-> NoRecord]
    /\ leads = ConvertedStore.leads
    /\ orders = ConvertedStore.orders
    /\ payments = ConvertedStore.payments
    /\ auditLogs = ConvertedStore.auditLogs
    /\ notifications = ConvertedStore.notifications
    /\ resp = NoResp
    /\ nreq = 0
    /\ nfault = 0
    /\ listResp = NoListResp
    /\ reqs = <<>>

\* the admin and the order's assignee: both may update order 1; a body names a
\* status, an amount above the stored one, both or neither
DoRaceBegin ==
    \E actor \in {"a1", "e1"}, status \in BodyOrderStatus,
       amount \in {None, MaxAmount} :
        RaceBegin(actor, 1, status, amount)

DoRacePay == \E i \in 1..MaxConc : RacePay(i)

DoRaceWrite == \E i \in 1..MaxConc : RaceWrite(i)

DoRaceFinish == \E i \in 1..MaxConc : RaceFinish(i)

NextRace ==
    \/ DoRaceBegin
    \/ DoRacePay
    \/ DoRaceWrite
    \/ DoRaceFinish

SpecRace == InitRace /\ [][NextRace]_vars

\* C23: order updates of authorized actors that run together on one Order are all
\* accepted (no request ends with another answer than 200); a write leaves in the
\* Order the values of its own payload, whatever was written since it read the
\* row; and each request's Payment is the difference between its payload and the
\* receivedAmount it read at its start.
C23_LastWriteWinsNoVersionCheck ==
    [][/\ \A i \in 1..Len(reqs') : reqs'[i].pc = "done" => reqs'[i].code = 200
       /\ \A i \in 1..Len(reqs) :
             LET r == reqs[i]
             IN  /\ (r.pc = "write" /\ reqs'[i].pc # "write") =>
                       /\ reqs'[i].pc = "finish"
                       /\ r.status # Absent => orders'[r.orderId].status = r.status
                       /\ r.amount # None =>
                             orders'[r.orderId].receivedAmount = r.amount
                 /\ (r.pc = "pay" /\ reqs'[i].pc # "pay") =>
                       IF r.amount # None /\ r.amount > r.read.receivedAmount
                       THEN /\ Len(payments') = Len(payments) + 1
                            /\ payments'[Len(payments')].amount
                                  = r.amount - r.read.receivedAmount
                       ELSE payments' = payments
      ]_vars

\* a1 and e1 both read the order holding 1 and both set 2: both were answered 200,
\* the order holds 2, and each wrote a PARTIAL payment of 1
C23_Witness_BothPaidTheSameDelta ==
    /\ Len(reqs) = 2
    /\ reqs[1].actor # reqs[2].actor
    /\ \A i \in 1..2 : /\ reqs[i].pc = "done"
                       /\ reqs[i].code = 200
                       /\ reqs[i].read.receivedAmount = 1
                       /\ reqs[i].amount = 2
    /\ orders[1].receivedAmount = 2
    /\ Len(payments) = 3
    /\ payments[2].amount = 1 /\ payments[3].amount = 1

\* The notifications a step has appended, as (recipient, type) pairs.
Appended(before, after) ==
    {[userId |-> after[k].userId, type |-> after[k].type] :
        k \in (Len(before) + 1)..Len(after)}

\* C24: a lead update that changes the status creates LEAD_STATUS_CHANGED
\* notifications for exactly the lead's assignee if the actor is not the assignee,
\* plus every active ADMIN if the actor is an employee; one that changes
\* assignedTo creates one LEAD_ASSIGNED notification for the new assignee; one that
\* changes neither creates none. (Updates in which no store call fails.)
C24_LeadUpdateNotifies ==
    [][(/\ nreq' = nreq + 1
        /\ resp'.op = "UpdateLead"
        /\ resp'.status = 200
        /\ resp'.fault = NoFault) =>
          LET actor    == resp'.actor
              touched  == {id \in DOMAIN leads : leads'[id] # leads[id]}
              statusOf == {id \in touched : leads'[id].status # leads[id].status}
              assignOf == {id \in touched : leads'[id].assignedTo # leads[id].assignedTo}
              expected ==
                 UNION {{[userId |-> u, type |-> "LEAD_STATUS_CHANGED"] :
                           u \in (IF leads'[id].assignedTo # actor
                                  THEN {leads'[id].assignedTo} ELSE {})
                                 \cup (IF resp'.role = "EMPLOYEE"
                                       THEN {a \in DOMAIN users :
                                               /\ users[a].role = "ADMIN"
                                               /\ users[a].isActive}
                                       ELSE {})} : id \in statusOf}
                 \cup {[userId |-> leads'[id].assignedTo, type |-> "LEAD_ASSIGNED"] :
                         id \in assignOf}
          IN  /\ Cardinality(touched) <= 1
              /\ SubSeq(notifications', 1, Len(notifications)) = notifications
              /\ Appended(notifications, notifications') = expected
              /\ Len(notifications') - Len(notifications) = Cardinality(expected)
      ]_vars

\* employee e1 has changed the status of the own lead 1: the two active admins,
\* and nobody else, hold a LEAD_STATUS_CHANGED notification
C24_Witness_EmployeeStatusChangeNotifiesAdmins ==
    /\ resp.op = "UpdateLead"
    /\ resp.status = 200
    /\ resp.fault = NoFault
    /\ resp.actor = "e1"
    /\ leads[1].status = "CONTACTED"
    /\ Appended(<<>>, notifications) =
          {[userId |-> "a1", type |-> "LEAD_STATUS_CHANGED"],
           [userId |-> "a2", type |-> "LEAD_STATUS_CHANGED"]}
    /\ Len(notifications) = 2

\* C25: every successful order update whose payload sets status DISPATCHED
\* creates one ORDER_DISPATCHED notification addressed to the Order's assignee,
\* whoever the actor is and whatever status the order had.
C25_DispatchAlwaysNotifies ==
    [][\A i \in 1..Len(reqs) :
          (/\ reqs[i].pc = "finish"
           /\ reqs'[i].pc = "done"
           /\ reqs'[i].code = 200
           /\ reqs[i].status = "DISPATCHED") =>
             LET new == SubSeq(notifications', Len(notifications) + 1,
                               Len(notifications'))
             IN  Len(SelectSeq(new, LAMBDA n :
                        /\ n.type = "ORDER_DISPATCHED"
                        /\ n.userId = orders[reqs[i].orderId].assignedTo
                        /\ n.entityId = reqs[i].orderId)) = 1
      ]_vars

\* C26: on every rate-limited endpoint the limiter is called before the session
\* check: each request, signed in or not, is counted against its client's window,
\* and is answered 429 when the limiter denies it.
C26_LimiterBeforeSession ==
    [][(nreq' = nreq + 1 /\ resp'.op # "MarkRead") =>
          /\ rateLimitMap' = RateLimitMapAfter(rateLimitMap, "ip1", DefaultLimit,
                                               DefaultWindowMs, now)
          /\ ~RateLimitAllows(rateLimitMap, "ip1", DefaultLimit, now) =>
                resp'.status = 429
      ]_vars

\* C27: an order update that is answered with an error leaves no new Payment
\* behind, and no step of any handler changes or removes a Payment that exists.
C27_FailedUpdateLeavesNoPayment ==
    [][/\ Len(payments') >= Len(payments)
       /\ SubSeq(payments', 1, Len(payments)) = payments
       /\ (/\ nreq' = nreq + 1
           /\ resp'.op = "UpdateOrder"
           /\ resp'.status >= 400) => payments' = payments
      ]_vars

(***************************************************************************)
(* Properties of the sweep and of denied rateLimit calls                   *)
(***************************************************************************)
\* C28: the sweep removes only entries whose resetTime has passed, and however
\* sweeps fall between the calls, each rateLimit call returns what it returns on
\* a map that is never swept; the two maps differ only in entries that have
\* expired.
C28_SweepIsTransparent ==
    [][/\ rlLast'.ok = rlLast'.unswept
       /\ \A ip \in IPs :
             \/ rateLimitMap'[ip] = Unswept'[ip]
             \/ /\ rateLimitMap'[ip] = NoRecord
                /\ now' > Unswept'[ip].resetTime
       /\ (rlCalls' = rlCalls /\ now' = now) =>
             \A ip \in IPs :
                rateLimitMap'[ip] # rateLimitMap[ip] =>
                   /\ rateLimitMap'[ip] = NoRecord
                   /\ now > rateLimitMap[ip].resetTime
      ]_vars

\* a client's expired entry was swept, and the client's next call then opened a
\* window, as it does on the unswept map (whose entry the sweep never touched)
C28_Witness_CallAfterSweep ==
    /\ rlLast.ip = "ip1"
    /\ rlLast.ok /\ rlLast.unswept
    /\ rlLast.opened
    /\ rlLast.at > WindowMs
    /\ rateLimitMap["ip1"] = Unswept["ip1"]
    /\ rateLimitMap["ip2"] = NoRecord
    /\ Unswept["ip2"] # NoRecord

\* C30: a rateLimit call that returns false leaves the whole map as it was (the
\* client's count and resetTime included), no count ever exceeds the limit, and a
\* call for one client never changes the entry of another client.
C30_DeniedCallChangesNothing ==
    [][rlCalls' # rlCalls =>
          /\ ~rlLast'.ok =>
                /\ rateLimitMap' = rateLimitMap
                /\ rateLimitMap[rlLast'.ip] # NoRecord
          /\ \A ip \in IPs \ {rlLast'.ip} : rateLimitMap'[ip] = rateLimitMap[ip]
          /\ \A ip \in IPs :
                rateLimitMap'[ip] # NoRecord => rateLimitMap'[ip].count <= Limit
      ]_vars

\* a client at the limit was just denied while the other client holds an entry
\* of its own, opened at another instant
C30_Witness_DeniedAtLimit ==
    /\ rlLast.ip = "ip1"
    /\ ~rlLast.ok
    /\ rlCalls["ip1"].n > Limit + 1
    /\ rateLimitMap["ip1"] # NoRecord
    /\ rateLimitMap["ip1"].count = Limit
    /\ rateLimitMap["ip2"] # NoRecord
    /\ rateLimitMap["ip2"].resetTime # rateLimitMap["ip1"].resetTime

(***************************************************************************)
(* Rejected write requests                                                 *)
(***************************************************************************)
RejectingWriteOps ==
    {"UpdateLead", "DeleteLead", "CreateOrder", "UpdateOrder", "BulkAssign"}

\* C29: a lead update or delete, an order create or update, or a bulk assign that
\* is answered 400, 401, 403, 404 or 429 leaves the Lead, Order, Payment, AuditLog
\* and Notification tables exactly as they were.
C29_RejectedRequestWritesNothing ==
    [][(/\ nreq' = nreq + 1
        /\ resp'.op \in RejectingWriteOps
        /\ resp'.status \in {400, 401, 403, 404, 429}) =>
          /\ leads' = leads
          /\ orders' = orders
          /\ payments' = payments
          /\ auditLogs' = auditLogs
          /\ notifications' = notifications
      ]_vars

\* an employee's update of an order assigned to someone else was answered 403 and
\* the tables are those the request found
C29_Witness_ForbiddenOrderUpdate ==
    /\ resp.op = "UpdateOrder"
    /\ resp.status = 403
    /\ resp.role = "EMPLOYEE"
    /\ ~resp.own
    /\ Store = ConvertedStore

=============================================================================
